---- MODULE Spec2Model ----
(***************************************************************************)
(* A model of the RCIP converter (src/rcip_converter.py): the ingredient   *)
(* and step parsers, the diet-label inference, the document assembler and  *)
(* the validator.                                                          *)
(*                                                                         *)
(* Text.  A string is a sequence of characters; a character is a TLA+      *)
(* string atom.  The source's lexicons are Russian, and the module's       *)
(* character set is ASCII, so every Cyrillic letter is written as one atom *)
(* by the letter-for-letter table                                          *)
(*   a b v g d e zh z i j k l m n o p r s t u f h c ch sh sch qq y q eh yu *)
(*   ya   (the 32 letters U+0430..U+044F in order; "q" is the soft sign,   *)
(*   "qq" the hard sign), an upper-case letter as the capitalised atom     *)
(*   ("K", "Zh"), and the letter U+0451, which lies outside that range, as *)
(*   "yo" / "Yo".                                                          *)
(* The table is injective, so substring containment, prefixes and the      *)
(* regular expressions' character classes are preserved.  "w" and "x"      *)
(* (and "W", "X") stand for Latin letters, "bullet" for U+2022 and "deg"   *)
(* for U+00B0.  A text is the sequence of its lines, that is the result of *)
(* text.split('\n'), which has at least one line: the empty text '' is    *)
(* << <<>> >>.                                                             *)
(*                                                                         *)
(* None.  An optional value is None (the empty tuple) or, for a number n,  *)
(* the one-element tuple <<n>>; an optional string or text is None or the  *)
(* string or text itself (no regular-expression group of the source and no *)
(* split text is empty, so the two never meet).                            *)
(*                                                                         *)
(* Numbers.  A float is an exact fraction [num, den]; two fractions are    *)
(* compared by cross-multiplication.                                       *)
(***************************************************************************)
EXTENDS Integers, Sequences, FiniteSets, TLC

None == <<>>

\* ------------------------------------------------------------------------
\* Lexicon tables (module-level constants of the source)
\* ------------------------------------------------------------------------

UNIT_MAPPING ==
    <<
      [key |-> <<"k", "g">>, unit |-> "kg", multiplier |-> [num |-> 1000, den |-> 1]],
      [key |-> <<"k", "i", "l", "o", "g", "r", "a", "m", "m">>, unit |-> "kg", multiplier |-> [num |-> 1000, den |-> 1]],
      [key |-> <<"g">>, unit |-> "g", multiplier |-> [num |-> 1, den |-> 1]],
      [key |-> <<"g", "r">>, unit |-> "g", multiplier |-> [num |-> 1, den |-> 1]],
      [key |-> <<"g", "r", "a", "m", "m">>, unit |-> "g", multiplier |-> [num |-> 1, den |-> 1]],
      [key |-> <<"m", "g">>, unit |-> "mg", multiplier |-> [num |-> 1, den |-> 1]],
      [key |-> <<"l">>, unit |-> "l", multiplier |-> [num |-> 1000, den |-> 1]],
      [key |-> <<"l", "i", "t", "r">>, unit |-> "l", multiplier |-> [num |-> 1000, den |-> 1]],
      [key |-> <<"m", "l">>, unit |-> "ml", multiplier |-> [num |-> 1, den |-> 1]],
      [key |-> <<"m", "i", "l", "l", "i", "l", "i", "t", "r">>, unit |-> "ml", multiplier |-> [num |-> 1, den |-> 1]],
      [key |-> <<"ch", ".", "l", ".">>, unit |-> "tsp", multiplier |-> [num |-> 5, den |-> 1]],
      [key |-> <<"ch", ".", "l", "o", "zh", "k", "a">>, unit |-> "tsp", multiplier |-> [num |-> 5, den |-> 1]],
      [key |-> <<"ch", "a", "j", "n", "a", "ya", " ", "l", "o", "zh", "k", "a">>, unit |-> "tsp", multiplier |-> [num |-> 5, den |-> 1]],
      [key |-> <<"s", "t", ".", "l", ".">>, unit |-> "tbsp", multiplier |-> [num |-> 15, den |-> 1]],
      [key |-> <<"s", "t", ".", "l", "o", "zh", "k", "a">>, unit |-> "tbsp", multiplier |-> [num |-> 15, den |-> 1]],
      [key |-> <<"s", "t", "o", "l", "o", "v", "a", "ya", " ", "l", "o", "zh", "k", "a">>, unit |-> "tbsp", multiplier |-> [num |-> 15, den |-> 1]],
      [key |-> <<"s", "t", "a", "k", "a", "n">>, unit |-> "cup", multiplier |-> [num |-> 240, den |-> 1]],
      [key |-> <<"s", "t", "a", "k">>, unit |-> "cup", multiplier |-> [num |-> 240, den |-> 1]],
      [key |-> <<"sh", "t">>, unit |-> "pcs", multiplier |-> [num |-> 1, den |-> 1]],
      [key |-> <<"sh", "t", "u", "k">>, unit |-> "pcs", multiplier |-> [num |-> 1, den |-> 1]],
      [key |-> <<"sh", "t", "u", "k", "a">>, unit |-> "pcs", multiplier |-> [num |-> 1, den |-> 1]],
      [key |-> <<"sh", "t", "u", "k", "i">>, unit |-> "pcs", multiplier |-> [num |-> 1, den |-> 1]],
      [key |-> <<"sch", "e", "p", "o", "t", "k", "a">>, unit |-> "pinch", multiplier |-> [num |-> 1, den |-> 2]],
      [key |-> <<"sch", "e", "p", "o", "t">>, unit |-> "pinch", multiplier |-> [num |-> 1, den |-> 2]],
      [key |-> <<"p", "o", " ", "v", "k", "u", "s", "u">>, unit |-> "to-taste", multiplier |-> [num |-> 0, den |-> 1]],
      [key |-> <<"v", "k", "u", "s">>, unit |-> "to-taste", multiplier |-> [num |-> 0, den |-> 1]]
    >>

ALLERGEN_KEYWORDS ==
    <<
      [allergen |-> "milk", keywords |-> {<<"m", "o", "l", "o", "k", "o">>,
          <<"s", "l", "i", "v", "k", "i">>,
          <<"s", "m", "e", "t", "a", "n", "a">>,
          <<"j", "o", "g", "u", "r", "t">>,
          <<"k", "e", "f", "i", "r">>,
          <<"t", "v", "o", "r", "o", "g">>,
          <<"s", "y", "r">>,
          <<"m", "a", "s", "l", "o", " ", "s", "l", "i", "v", "o", "ch", "n", "o", "e">>}],
      [allergen |-> "lactose", keywords |-> {<<"m", "o", "l", "o", "k", "o">>,
          <<"s", "l", "i", "v", "k", "i">>,
          <<"s", "m", "e", "t", "a", "n", "a">>,
          <<"j", "o", "g", "u", "r", "t">>,
          <<"k", "e", "f", "i", "r">>}],
      [allergen |-> "eggs", keywords |-> {<<"ya", "j", "c", "o">>,
          <<"ya", "j", "c", "a">>,
          <<"zh", "e", "l", "t", "o", "k">>,
          <<"b", "e", "l", "o", "k">>}],
      [allergen |-> "fish", keywords |-> {<<"r", "y", "b", "a">>,
          <<"l", "o", "s", "o", "s", "q">>,
          <<"f", "o", "r", "e", "l", "q">>,
          <<"t", "r", "e", "s", "k", "a">>,
          <<"t", "u", "n", "e", "c">>,
          <<"s", "k", "u", "m", "b", "r", "i", "ya">>}],
      [allergen |-> "shellfish", keywords |-> {<<"k", "r", "e", "v", "e", "t", "k", "i">>,
          <<"k", "r", "a", "b">>,
          <<"o", "m", "a", "r">>,
          <<"m", "i", "d", "i", "i">>,
          <<"u", "s", "t", "r", "i", "c", "y">>,
          <<"k", "a", "l", "q", "m", "a", "r">>}],
      [allergen |-> "tree-nuts", keywords |-> {<<"o", "r", "e", "h">>,
          <<"m", "i", "n", "d", "a", "l", "q">>,
          <<"f", "u", "n", "d", "u", "k">>,
          <<"k", "e", "sh", "q", "yu">>,
          <<"f", "i", "s", "t", "a", "sh", "k", "i">>,
          <<"p", "e", "k", "a", "n">>}],
      [allergen |-> "peanuts", keywords |-> {<<"a", "r", "a", "h", "i", "s">>}],
      [allergen |-> "wheat", keywords |-> {<<"m", "u", "k", "a">>,
          <<"p", "sh", "e", "n", "i", "c", "a">>,
          <<"h", "l", "e", "b">>,
          <<"m", "a", "k", "a", "r", "o", "n", "y">>,
          <<"s", "p", "a", "g", "e", "t", "t", "i">>,
          <<"b", "u", "l", "k", "a">>}],
      [allergen |-> "gluten", keywords |-> {<<"m", "u", "k", "a">>,
          <<"p", "sh", "e", "n", "i", "c", "a">>,
          <<"r", "o", "zh", "q">>,
          <<"ya", "ch", "m", "e", "n", "q">>,
          <<"o", "v", "e", "s">>,
          <<"h", "l", "e", "b">>,
          <<"m", "a", "k", "a", "r", "o", "n", "y">>}],
      [allergen |-> "soybeans", keywords |-> {<<"s", "o", "ya">>,
          <<"t", "o", "f", "u">>,
          <<"s", "o", "e", "v", "y", "j">>}],
      [allergen |-> "sesame", keywords |-> {<<"k", "u", "n", "zh", "u", "t">>,
          <<"t", "a", "h", "i", "n", "i">>}],
      [allergen |-> "celery", keywords |-> {<<"s", "e", "l", "q", "d", "e", "r", "e", "j">>}],
      [allergen |-> "mustard", keywords |-> {<<"g", "o", "r", "ch", "i", "c", "a">>}],
      [allergen |-> "sulphites", keywords |-> {<<"v", "i", "n", "o">>,
          <<"u", "k", "s", "u", "s">>}]
    >>

ACTION_MAPPING ==
    <<
      [keyword |-> <<"d", "o", "b", "a", "v", "i", "t", "q">>, action |-> "add"],
      [keyword |-> <<"d", "o", "b", "a", "v", "q">>, action |-> "add"],
      [keyword |-> <<"d", "o", "b", "a", "v", "l", "ya", "e", "m">>, action |-> "add"],
      [keyword |-> <<"p", "o", "l", "o", "zh", "i", "t", "q">>, action |-> "add"],
      [keyword |-> <<"s", "m", "e", "sh", "a", "t", "q">>, action |-> "mix"],
      [keyword |-> <<"s", "m", "e", "sh", "a", "j">>, action |-> "mix"],
      [keyword |-> <<"s", "m", "e", "sh", "i", "v", "a", "e", "m">>, action |-> "mix"],
      [keyword |-> <<"p", "e", "r", "e", "m", "e", "sh", "a", "t", "q">>, action |-> "mix"],
      [keyword |-> <<"s", "o", "e", "d", "i", "n", "i", "t", "q">>, action |-> "combine"],
      [keyword |-> <<"o", "b", "qq", "e", "d", "i", "n", "i", "t", "q">>, action |-> "combine"],
      [keyword |-> <<"v", "z", "b", "i", "t", "q">>, action |-> "blend"],
      [keyword |-> <<"v", "z", "b", "i", "v", "a", "t", "q">>, action |-> "blend"],
      [keyword |-> <<"n", "a", "r", "e", "z", "a", "t", "q">>, action |-> "cut"],
      [keyword |-> <<"n", "a", "r", "e", "zh", "q">>, action |-> "cut"],
      [keyword |-> <<"p", "o", "r", "e", "z", "a", "t", "q">>, action |-> "cut"],
      [keyword |-> <<"n", "a", "sh", "i", "n", "k", "o", "v", "a", "t", "q">>, action |-> "slice"],
      [keyword |-> <<"n", "a", "sh", "i", "n", "k", "u", "j">>, action |-> "slice"],
      [keyword |-> <<"i", "z", "m", "e", "l", "q", "ch", "i", "t", "q">>, action |-> "mince"],
      [keyword |-> <<"i", "z", "m", "e", "l", "q", "ch", "a", "j">>, action |-> "mince"],
      [keyword |-> <<"v", "a", "r", "i", "t", "q">>, action |-> "boil"],
      [keyword |-> <<"s", "v", "a", "r", "i">>, action |-> "boil"],
      [keyword |-> <<"v", "s", "k", "i", "p", "ya", "t", "i", "t", "q">>, action |-> "boil"],
      [keyword |-> <<"t", "u", "sh", "i", "t", "q">>, action |-> "simmer"],
      [keyword |-> <<"t", "u", "sh", "i">>, action |-> "simmer"],
      [keyword |-> <<"p", "r", "o", "t", "u", "sh", "i", "t", "q">>, action |-> "simmer"],
      [keyword |-> <<"zh", "a", "r", "i", "t", "q">>, action |-> "fry"],
      [keyword |-> <<"zh", "a", "r", "q">>, action |-> "fry"],
      [keyword |-> <<"o", "b", "zh", "a", "r", "i", "t", "q">>, action |-> "fry"],
      [keyword |-> <<"p", "o", "zh", "a", "r", "i", "t", "q">>, action |-> "fry"],
      [keyword |-> <<"z", "a", "p", "e", "k", "a", "t", "q">>, action |-> "bake"],
      [keyword |-> <<"z", "a", "p", "e", "k", "i">>, action |-> "bake"],
      [keyword |-> <<"v", "y", "p", "e", "k", "a", "t", "q">>, action |-> "bake"],
      [keyword |-> <<"o", "h", "l", "a", "d", "i", "t", "q">>, action |-> "cool"],
      [keyword |-> <<"o", "s", "t", "u", "d", "i", "t", "q">>, action |-> "cool"],
      [keyword |-> <<"z", "a", "m", "e", "s", "i", "t", "q">>, action |-> "knead"],
      [keyword |-> <<"m", "e", "s", "i", "t", "q">>, action |-> "knead"],
      [keyword |-> <<"r", "a", "s", "k", "a", "t", "a", "t", "q">>, action |-> "roll"],
      [keyword |-> <<"r", "a", "s", "k", "a", "t", "a", "j">>, action |-> "roll"],
      [keyword |-> <<"p", "r", "o", "c", "e", "d", "i", "t", "q">>, action |-> "strain"],
      [keyword |-> <<"p", "r", "o", "c", "e", "d", "i">>, action |-> "strain"],
      [keyword |-> <<"n", "a", "s", "t", "o", "ya", "t", "q">>, action |-> "rest"],
      [keyword |-> <<"n", "a", "s", "t", "a", "i", "v", "a", "t", "q">>, action |-> "rest"],
      [keyword |-> <<"p", "o", "d", "a", "v", "a", "t", "q">>, action |-> "garnish"],
      [keyword |-> <<"p", "o", "d", "a", "t", "q">>, action |-> "garnish"],
      [keyword |-> <<"u", "k", "r", "a", "s", "i", "t", "q">>, action |-> "garnish"]
    >>

\* ------------------------------------------------------------------------
\* Characters and the string operations of Python the source uses
\* ------------------------------------------------------------------------

\* The letters U+0430..U+044F, in order.
CyrLowerSeq ==
    <<"a", "b", "v", "g", "d", "e", "zh", "z", "i", "j", "k", "l", "m", "n",
      "o", "p", "r", "s", "t", "u", "f", "h", "c", "ch", "sh", "sch", "qq",
      "y", "q", "eh", "yu", "ya">>

\* The letters U+0410..U+042F, in order.
CyrUpperSeq ==
    <<"A", "B", "V", "G", "D", "E", "Zh", "Z", "I", "J", "K", "L", "M", "N",
      "O", "P", "R", "S", "T", "U", "F", "H", "C", "Ch", "Sh", "Sch", "Qq",
      "Y", "Q", "Eh", "Yu", "Ya">>

Range(f) == {f[i] : i \in DOMAIN f}

CyrLower == Range(CyrLowerSeq)

CyrUpper == Range(CyrUpperSeq)

\* \d of the re module.
Digit == {"0", "1", "2", "3", "4", "5", "6", "7", "8", "9"}

\* \s of the re module and the characters str.strip() removes.
Whitespace == {" ", "\t"}

\* The class [а-яА-Я.] of the quantity pattern.
UnitChar == CyrLower \cup CyrUpper \cup {"."}

\* The class [-•*] of the list-marker pattern.
BulletChar == {"-", "bullet", "*"}

\* str.lower() on one character.
LowerChar ==
    [c \in CyrUpper \cup {"Yo", "W", "X"} |->
        IF c = "Yo" THEN "yo"
        ELSE IF c = "W" THEN "w"
        ELSE IF c = "X" THEN "x"
        ELSE CyrLowerSeq[CHOOSE i \in DOMAIN CyrUpperSeq : CyrUpperSeq[i] = c]]

\* str.lower()
lower(s) ==
    [i \in 1..Len(s) |-> IF s[i] \in DOMAIN LowerChar THEN LowerChar[s[i]] ELSE s[i]]

\* The index after the longest run of characters of `set` that starts at i.
RunEnd(s, i, set) ==
    CHOOSE j \in i..(Len(s) + 1) :
        /\ \A k \in i..(j - 1) : s[k] \in set
        /\ (j = Len(s) + 1 \/ s[j] \notin set)

\* The index before the longest run of characters of `set` that ends at i.
RunStart(s, i, set) ==
    CHOOSE j \in 0..i :
        /\ \A k \in (j + 1)..i : s[k] \in set
        /\ (j = 0 \/ s[j] \notin set)

\* s[i:] and s[i:j] with 1-based, inclusive indices.
From(s, i) == SubSeq(s, i, Len(s))

\* str.strip(chars)
strip_chars(s, set) ==
    LET a == RunEnd(s, 1, set)
    IN  IF a > Len(s) THEN <<>> ELSE SubSeq(s, a, RunStart(s, Len(s), set))

\* str.strip()
strip(s) == strip_chars(s, Whitespace)

\* p occurs in s at index i.
At(s, i, p) ==
    /\ i + Len(p) - 1 <= Len(s)
    /\ \A k \in 1..Len(p) : s[i + k - 1] = p[k]

\* `p in s` on strings.
In(p, s) == \E i \in 1..(Len(s) + 1) : At(s, i, p)

\* str.startswith(p)
startswith(s, p) == At(s, 1, p)

DigitValue ==
    [c \in Digit |->
        CHOOSE n \in 0..9 : <<"0", "1", "2", "3", "4", "5", "6", "7", "8", "9">>[n + 1] = c]

\* int(s) of a string of digits.
RECURSIVE int(_)
int(s) ==
    IF s = <<>> THEN 0
    ELSE int(SubSeq(s, 1, Len(s) - 1)) * 10 + DigitValue[s[Len(s)]]

RECURSIVE Pow10(_)
Pow10(n) == IF n = 0 THEN 1 ELSE 10 * Pow10(n - 1)

\* float(s) of a string <digits>[.<digits>], as an exact fraction.
float(s) ==
    LET p == RunEnd(s, 1, Digit)
        whole == SubSeq(s, 1, p - 1)
        frac == IF p > Len(s) THEN <<>> ELSE From(s, p + 1)
    IN  [num |-> int(whole \o frac), den |-> Pow10(Len(frac))]

\* str.replace(',', '.')
replace_comma(s) == [i \in 1..Len(s) |-> IF s[i] = "," THEN "." ELSE s[i]]

\* Equality and product of fractions.
FracEq(a, b) == a.num * b.den = b.num * a.den

FracMul(a, b) == [num |-> a.num * b.num, den |-> a.den * b.den]

FracOfInt(n) == [num |-> n, den |-> 1]

\* The least element of a set of numbers.
Least(set) == CHOOSE i \in set : \A j \in set : i <= j

\* ------------------------------------------------------------------------
\* Ingredient parser
\* ------------------------------------------------------------------------

NoMatch == [matched |-> FALSE]

\* The groups of a match of the quantity pattern: group 1 ends before g1,
\* group 2 is `unit` and group 3 starts at `rest`.
Groups(line, g1, unit, rest) ==
    [matched |-> TRUE, g1 |-> SubSeq(line, 1, g1 - 1), g2 |-> unit,
     g3 |-> From(line, rest)]

\* The match of \s*([а-яА-Я.]+)?\s+(.+) after group 1: \s* ends before w0,
\* the longest unit token before u0 and the whitespace after it before w1.
\* Group 2 takes part only when its longest run is followed by whitespace;
\* otherwise \s* gives its last character back to \s+ and group 2 is None.
\* (.+ needs one character: when whitespace runs to the end of the line,
\* \s+ gives its last character back.)
MatchTail(line, g1, w0, u0, w1) ==
    IF u0 > w0 /\ w1 > u0 /\ w1 <= Len(line)
        THEN Groups(line, g1, SubSeq(line, w0, u0 - 1), w1)
    ELSE IF u0 > w0 /\ w1 >= u0 + 2
        THEN Groups(line, g1, SubSeq(line, w0, u0 - 1), w1 - 1)
    ELSE IF w0 > g1 /\ w0 <= Len(line)
        THEN Groups(line, g1, None, w0)
    ELSE IF w0 >= g1 + 2
        THEN Groups(line, g1, None, w0 - 1)
    ELSE NoMatch

MatchUnit(line, g1, w0, u0) ==
    MatchTail(line, g1, w0, u0, RunEnd(line, u0, Whitespace))

MatchSpace(line, g1, w0) ==
    MatchUnit(line, g1, w0, RunEnd(line, w0, UnitChar))

\* Group 1, (\d+[.,]?\d*), ends before g1; g1 = 1 when the line starts with
\* no digit.  (Group 1 is the longest it can be: were it shorter, a digit or
\* a comma would follow it, or a dot that group 2 would have to start with,
\* and the match found that way is found with the longer group 1 as well.)
MatchNumber(line, g1) ==
    IF g1 = 1 THEN NoMatch
    ELSE MatchSpace(line, g1, RunEnd(line, g1, Whitespace))

AfterSeparator(line, d1) ==
    IF d1 > 1 /\ d1 <= Len(line) /\ line[d1] \in {".", ","}
    THEN RunEnd(line, d1 + 1, Digit)
    ELSE d1

\* re.match(r'(\d+[.,]?\d*)\s*([а-яА-Я.]+)?\s+(.+)', line): the groups of the
\* match the backtracking matcher finds (every quantifier greedy), or NoMatch.
re_match_quantity(line) ==
    MatchNumber(line, AfterSeparator(line, RunEnd(line, 1, Digit)))

\* The entry, were the unit token with no key to go through as it is: the
\* token u.
DefaultUnit_raw == [unit |-> "u", multiplier |-> [num |-> 1, den |-> 1]]

\* The entry returned when no key of UNIT_MAPPING occurs in the unit token.
DefaultUnit == [unit |-> "pcs", multiplier |-> [num |-> 1, den |-> 1]]

\* The first entry of UNIT_MAPPING among `hits`, the indices of the keys
\* that occur in the unit token.
FirstUnit(hits) ==
    IF hits = {} THEN DefaultUnit
    ELSE [k \in {"unit", "multiplier"} |-> UNIT_MAPPING[Least(hits)][k]]

UnitHits(unit_lower) ==
    {i \in 1..Len(UNIT_MAPPING) : In(UNIT_MAPPING[i].key, unit_lower)}

_normalize_unit(unit_str) ==
    FirstUnit(UnitHits(strip_chars(lower(unit_str), {"."})))

\* The allergens, were a keyword to count only at the end of the name.
_detect_allergens_at_end(ingredient_name) ==
    [i \in 1..Len(SelectSeq(ALLERGEN_KEYWORDS,
            LAMBDA e : \E keyword \in e.keywords :
                Len(keyword) <= Len(ingredient_name)
                /\ At(lower(ingredient_name),
                      Len(ingredient_name) - Len(keyword) + 1, keyword))) |->
        SelectSeq(ALLERGEN_KEYWORDS,
            LAMBDA e : \E keyword \in e.keywords :
                Len(keyword) <= Len(ingredient_name)
                /\ At(lower(ingredient_name),
                      Len(ingredient_name) - Len(keyword) + 1, keyword))[i].allergen]

AllergensOf(hits) == [i \in 1..Len(hits) |-> hits[i].allergen]

_detect_allergens(ingredient_name) ==
    AllergensOf(SelectSeq(ALLERGEN_KEYWORDS,
        LAMBDA e : \E keyword \in e.keywords : In(keyword, lower(ingredient_name))))

\* The dataclass ParsedIngredient; notes keeps its default ''.
ParsedIngredient(name, amount, value, unit, allergens) ==
    [name |-> name, amount |-> amount, value |-> value, unit |-> unit,
     allergens |-> allergens, notes |-> <<>>]

\* The branch of _parse_ingredient_line taken on a match.
QuantityIngredient(line, name, value, norm) ==
    ParsedIngredient(name, line,
        IF norm.multiplier.num # norm.multiplier.den
        THEN FracMul(value, norm.multiplier)
        ELSE value,
        norm.unit, _detect_allergens(name))

\* The record of a line without quantity, were the unit left at the default
\* of the dataclass.
PlainIngredient_default_unit(line, name) ==
    ParsedIngredient(name, line, FracOfInt(0), "pcs", _detect_allergens(name))

\* The branch of _parse_ingredient_line taken on no match.
PlainIngredient(line, name) ==
    ParsedIngredient(name, line, FracOfInt(0), "to-taste", _detect_allergens(name))

SHT == <<"sh", "t">>

IngredientOfMatch(line, match) ==
    IF match.matched
    THEN QuantityIngredient(line, strip(match.g3), float(replace_comma(match.g1)),
                            _normalize_unit(IF match.g2 = None THEN SHT ELSE match.g2))
    ELSE PlainIngredient(line, strip(line))

_parse_ingredient_line(line) == IngredientOfMatch(line, re_match_quantity(line))

\* line.lower().startswith(('ингредиент', 'состав', 'для теста'))
IngredientHeadings ==
    { <<"i", "n", "g", "r", "e", "d", "i", "e", "n", "t">>,
      <<"s", "o", "s", "t", "a", "v">>,
      <<"d", "l", "ya", " ", "t", "e", "s", "t", "a">> }

\* re.sub(r'^[-•*]\s*', '', line)
strip_bullet(line) ==
    IF line # <<>> /\ line[1] \in BulletChar
    THEN From(line, RunEnd(line, 2, Whitespace))
    ELSE line

\* [line.strip() for line in text.split('\n') if line.strip()]
nonblank_lines(text) ==
    SelectSeq([i \in 1..Len(text) |-> strip(text[i])], LAMBDA line : line # <<>>)

\* The loop of parse_ingredients, were `if ingredient:` to fail on a record
\* with an empty name.
IngredientsOf_named(data) ==
    SelectSeq([i \in 1..Len(data) |-> _parse_ingredient_line(strip_bullet(data[i]))],
              LAMBDA ingredient : ingredient.name # <<>>)

\* The loop of parse_ingredients over the lines that are no headings; the
\* test `if ingredient:` holds of every ParsedIngredient.
IngredientsOf(data) ==
    [i \in 1..Len(data) |-> _parse_ingredient_line(strip_bullet(data[i]))]

parse_ingredients(text) ==
    IngredientsOf(SelectSeq(nonblank_lines(text),
        LAMBDA line : ~ \E h \in IngredientHeadings : startswith(lower(line), h)))

\* ------------------------------------------------------------------------
\* Step parser
\* ------------------------------------------------------------------------

\* The action, were it that of the keyword that comes first in the text.
_detect_action_first_in_text(text) ==
    LET hits == {i \in 1..Len(ACTION_MAPPING) : In(ACTION_MAPPING[i].keyword, lower(text))}
        place(k) == Least({p \in 1..Len(text) : At(lower(text), p, ACTION_MAPPING[k].keyword)})
    IN  IF hits = {} THEN "prepare"
        ELSE ACTION_MAPPING[CHOOSE k \in hits : \A j \in hits : place(k) <= place(j)].action

FirstAction(hits) ==
    IF hits = {} THEN "prepare" ELSE ACTION_MAPPING[Least(hits)].action

_detect_action(text) ==
    FirstAction({i \in 1..Len(ACTION_MAPPING) :
                    In(ACTION_MAPPING[i].keyword, lower(text))})

\* The starts of the digit runs of s: where a leftmost match of (\d+)... begins.
\* (\d+ cannot stop short of the end of its run: a digit follows, and what
\* comes next in each pattern is no digit.)
RunStarts(s) ==
    {i \in 1..Len(s) : s[i] \in Digit /\ (i = 1 \/ s[i - 1] \notin Digit)}

\* The digits of the run that starts at i.
NumberAt(s, i) == SubSeq(s, i, RunEnd(s, i, Digit) - 1)

\* The index after the run that starts at i and the whitespace after it.
AfterNumber(s, i) == RunEnd(s, RunEnd(s, i, Digit), Whitespace)

\* The groups of the leftmost match, one number, that starts in `starts`.
OneGroup(s, starts) ==
    IF starts = {} THEN None ELSE <<NumberAt(s, Least(starts))>>

\* re.search(r'(\d+)\s*<word>', s): group 1 of the leftmost match, or None.
re_search_number_word(s, word) ==
    OneGroup(s, {i \in RunStarts(s) : At(s, AfterNumber(s, i), word)})

\* The groups of the leftmost match, a range, that starts in `starts`.
TwoGroups(s, starts) ==
    IF starts = {} THEN None
    ELSE <<NumberAt(s, Least(starts)),
           NumberAt(s, RunEnd(s, Least(starts), Digit) + 1)>>

\* re.search(r'(\d+)-(\d+)\s*<word>', s): groups 1 and 2 of the leftmost match.
re_search_range(s, word) ==
    TwoGroups(s, {i \in RunStarts(s) :
                    /\ At(s, RunEnd(s, i, Digit), <<"-">>)
                    /\ RunEnd(s, i, Digit) + 1 \in RunStarts(s)
                    /\ At(s, AfterNumber(s, RunEnd(s, i, Digit) + 1), word)})

MIN == <<"m", "i", "n">>

CHAS == <<"ch", "a", "s">>

\* The pattern list of _extract_time, in its order, each with the groups of
\* its match in s; `hour` is the test 'час' in pattern.
time_patterns(s) ==
    << [hour |-> FALSE, groups |-> re_search_number_word(s, MIN)],
       [hour |-> TRUE,  groups |-> re_search_number_word(s, CHAS)],
       [hour |-> FALSE, groups |-> re_search_range(s, MIN)] >>

\* The value _extract_time returns on the match m.
TimeOfMatch(m) ==
    IF m.hour THEN <<int(m.groups[1]) * 60>>
    ELSE IF Len(m.groups) = 2
        THEN <<(int(m.groups[1]) + int(m.groups[2])) \div 2>>
    ELSE <<int(m.groups[1])>>

\* The loop of _extract_time: the first pattern that matches decides.
FirstTime(found) ==
    IF \A k \in 1..Len(found) : found[k].groups = None THEN None
    ELSE TimeOfMatch(found[Least({k \in 1..Len(found) : found[k].groups # None})])

_extract_time(text) == FirstTime(time_patterns(lower(text)))

\* A number starts at n, after at least one whitespace character from `from`.
HasNumberAfter(s, n, from) == n > from /\ n <= Len(s) /\ s[n] \in Digit

\* The group of the leftmost match of <word>\s+(\d+) that starts in `starts`.
GroupAfterWord(s, word, starts) ==
    IF starts = {} THEN None
    ELSE <<NumberAt(s, RunEnd(s, Least(starts) + Len(word), Whitespace))>>

\* re.search(r'<word>\s+(\d+)', s): group 1 of the leftmost match, or None.
re_search_word_number(s, word) ==
    GroupAfterWord(s, word,
        {i \in 1..Len(s) :
            /\ At(s, i, word)
            /\ HasNumberAfter(s, RunEnd(s, i + Len(word), Whitespace), i + Len(word))})

\* re.search(r'(\d+)\s*[°С]', s): group 1 of the leftmost match, or None.
re_search_number_char(s, chars) ==
    OneGroup(s, {i \in RunStarts(s) :
                    AfterNumber(s, i) <= Len(s) /\ s[AfterNumber(s, i)] \in chars})

GRAD == <<"g", "r", "a", "d">>

PRI == <<"p", "r", "i">>

\* The pattern list of _extract_temperature, in its order.
temperature_patterns(s) ==
    << re_search_number_char(s, {"deg", "S"}),
       re_search_number_word(s, GRAD),
       re_search_word_number(s, PRI) >>

FirstTemperature(found) ==
    IF \A k \in 1..Len(found) : found[k] = None THEN None
    ELSE <<int(found[Least({k \in 1..Len(found) : found[k] # None})][1])>>

_extract_temperature(text) == FirstTemperature(temperature_patterns(text))

\* The dataclass ParsedStep.
ParsedStep(text, action, time_minutes, temperature_c) ==
    [text |-> text, action |-> action, time_minutes |-> time_minutes,
     temperature_c |-> temperature_c]

_parse_step_line(line) ==
    ParsedStep(line, _detect_action(line), _extract_time(line),
               _extract_temperature(line))

\* line.lower().startswith(('приготовление', 'инструкция', 'шаг'))
StepHeadings ==
    { <<"p", "r", "i", "g", "o", "t", "o", "v", "l", "e", "n", "i", "e">>,
      <<"i", "n", "s", "t", "r", "u", "k", "c", "i", "ya">>,
      <<"sh", "a", "g">> }

\* re.sub(r'^\d+[\.)]\s*', '', line), given the end d of the leading digits.
StripNumberingAt(line, d) ==
    IF d > 1 /\ d <= Len(line) /\ line[d] \in {".", ")"}
    THEN From(line, RunEnd(line, d + 1, Whitespace))
    ELSE line

strip_numbering(line) == StripNumberingAt(line, RunEnd(line, 1, Digit))

\* The loop of parse_steps over the lines that are no headings; the test
\* `if step:` holds of every ParsedStep.
StepsOf(data) ==
    [i \in 1..Len(data) |-> _parse_step_line(strip_bullet(strip_numbering(data[i])))]

parse_steps(text) ==
    StepsOf(SelectSeq(nonblank_lines(text),
        LAMBDA line : ~ \E h \in StepHeadings : startswith(lower(line), h)))

\* ------------------------------------------------------------------------
\* RCIP structures, diet labels, convert and validate
\* ------------------------------------------------------------------------

\* Python's truth value of a text argument: None and '' are false.
TruthyText(text) == text # None /\ text # << <<>> >>

\* Python's truth value of an optional number: None and 0 are false.
Truthy(n) == n # None /\ n # <<0>>

\* f"{index:0{width}d}", given the digits of index.
RECURSIVE zero_pad(_, _)
zero_pad(digits, width) ==
    IF Len(digits) >= width THEN digits ELSE zero_pad("0" \o digits, width)

_create_meta(name, description, servings, prep_time, cook_time, difficulty, cuisine, author, created) ==
    [name |-> name, author |-> author, created_date |-> created,
     difficulty |-> difficulty, diet_labels |-> <<>>]
    @@ (IF description # "" THEN [description |-> description] ELSE <<>>)
    @@ (IF Truthy(servings)
        THEN [servings |-> [amount |-> servings[Len(servings)], unit |-> "portions",
                            adjustable |-> TRUE]]
        ELSE <<>>)
    @@ (IF Truthy(prep_time) THEN [prep_time_minutes |-> prep_time[1]] ELSE <<>>)
    @@ (IF Truthy(cook_time) THEN [cook_time_minutes |-> cook_time[1]] ELSE <<>>)
    @@ (IF Truthy(prep_time) /\ Truthy(cook_time)
        THEN [total_time_minutes |-> prep_time[1] + cook_time[1]]
        ELSE <<>>)
    @@ (IF cuisine # <<>> THEN [keywords |-> <<lower(cuisine)>>] ELSE <<>>)

\* The entry, were the allergens field written only when an allergen was
\* detected.
_ingredient_to_rcip_sparse(ing, index) ==
    [id |-> "ing-" \o zero_pad(ToString(index), 4),
     name |-> ing.name,
     human_amount |-> ing.amount,
     machine_amount |-> [value |-> ing.value, unit |-> ing.unit,
                         approximate |-> FALSE],
     notes |-> ing.notes]
    @@ (IF ing.allergens # <<>> THEN [allergens |-> ing.allergens] ELSE <<>>)

_ingredient_to_rcip(ing, index) ==
    [id |-> "ing-" \o zero_pad(ToString(index), 4),
     name |-> ing.name,
     human_amount |-> ing.amount,
     machine_amount |-> [value |-> ing.value, unit |-> ing.unit,
                         approximate |-> FALSE],
     allergens |-> ing.allergens,
     notes |-> ing.notes]

\* The dict params of _step_to_rcip.
StepParams(step) ==
    (IF Truthy(step.time_minutes)
     THEN [time_minutes |-> step.time_minutes[1]] ELSE <<>>)
    @@ (IF Truthy(step.temperature_c)
        THEN [temperature_c |-> step.temperature_c[1]] ELSE <<>>)

_step_to_rcip(step, index) ==
    [step_id |-> "s-" \o zero_pad(ToString(index), 2),
     human_text |-> step.text,
     action |-> step.action]
    @@ (IF Truthy(step.time_minutes) \/ Truthy(step.temperature_c)
        THEN [params |-> StepParams(step)] ELSE <<>>)

\* ing.get("allergens", [])
GetAllergens(ing) ==
    IF "allergens" \in DOMAIN ing THEN Range(ing.allergens) ELSE {}

\* The labels, were the gluten-free test to look for "gluten" alone.
DietLabelsOf_gluten_only(all_allergens) ==
    (IF "gluten" \notin all_allergens THEN <<"gluten-free">> ELSE <<>>)
    \o (IF "milk" \notin all_allergens /\ "lactose" \notin all_allergens
        THEN <<"dairy-free">> ELSE <<>>)
    \o (IF "tree-nuts" \notin all_allergens /\ "peanuts" \notin all_allergens
        THEN <<"nut-free">> ELSE <<>>)

\* The labels _detect_diet_labels appends, given the union of the allergens.
DietLabelsOf(all_allergens) ==
    (IF "gluten" \notin all_allergens /\ "wheat" \notin all_allergens
     THEN <<"gluten-free">> ELSE <<>>)
    \o (IF "milk" \notin all_allergens /\ "lactose" \notin all_allergens
        THEN <<"dairy-free">> ELSE <<>>)
    \o (IF "tree-nuts" \notin all_allergens /\ "peanuts" \notin all_allergens
        THEN <<"nut-free">> ELSE <<>>)

_detect_diet_labels(ingredients) ==
    DietLabelsOf(UNION {GetAllergens(ingredients[i]) : i \in 1..Len(ingredients)})

\* The ingredients list, were it numbered with enumerate's index i instead
\* of i+1.
IngredientsToRcip_from_zero(parsed) ==
    [i \in 1..Len(parsed) |-> _ingredient_to_rcip(parsed[i], i - 1)]

\* [self._ingredient_to_rcip(ing, i+1) for i, ing in enumerate(parsed)]
IngredientsToRcip(parsed) ==
    [i \in 1..Len(parsed) |-> _ingredient_to_rcip(parsed[i], i)]

\* [self._step_to_rcip(step, i+1) for i, step in enumerate(parsed)]
StepsToRcip(parsed) ==
    [i \in 1..Len(parsed) |-> _step_to_rcip(parsed[i], i)]

\* The document, were the id of the conversion noted in the extensions too.
Assemble_noting_id(a, uuid, created, converted, ingredients, steps) ==
    [rcip_version |-> "0.1",
     id |-> "rcip-" \o uuid,
     meta |-> [_create_meta(a.name, a.description, a.servings, a.prep_time,
                            a.cook_time, a.difficulty, a.cuisine, a.author, created)
               EXCEPT !.diet_labels = _detect_diet_labels(ingredients)],
     ingredients |-> ingredients,
     steps |-> steps]
    @@ (IF a.source_url # ""
        THEN [extensions |-> [source_url |-> a.source_url,
                              converted_date |-> converted,
                              conversion |-> uuid]]
        ELSE <<>>)

\* The document convert returns, given its two lists.
Assemble(a, uuid, created, converted, ingredients, steps) ==
    [rcip_version |-> "0.1",
     id |-> "rcip-" \o uuid,
     meta |-> [_create_meta(a.name, a.description, a.servings, a.prep_time,
                            a.cook_time, a.difficulty, a.cuisine, a.author, created)
               EXCEPT !.diet_labels = _detect_diet_labels(ingredients)],
     ingredients |-> ingredients,
     steps |-> steps]
    @@ (IF a.source_url # ""
        THEN [extensions |-> [source_url |-> a.source_url,
                              converted_date |-> converted]]
        ELSE <<>>)

\* convert(**a); uuid is what uuid4() returns, created and converted are the
\* two readings of the clock.
convert(a, uuid, created, converted) ==
    Assemble(a, uuid, created, converted,
        IF TruthyText(a.ingredients_text)
        THEN IngredientsToRcip(parse_ingredients(a.ingredients_text))
        ELSE <<>>,
        IF TruthyText(a.steps_text)
        THEN StepsToRcip(parse_steps(a.steps_text))
        ELSE <<>>)

RequiredFields == <<"rcip_version", "id", "meta", "ingredients", "steps">>

\* recipe.get('ingredients', [])
GetIngredients(recipe) ==
    IF "ingredients" \in DOMAIN recipe THEN recipe.ingredients ELSE <<>>

\* The first loop of validate: one message for each required field missing.
MissingFieldErrors(recipe) ==
    LET missing == SelectSeq(RequiredFields, LAMBDA f : f \notin DOMAIN recipe)
    IN  [i \in 1..Len(missing) |-> "Missing required field: " \o missing[i]]

\* The second loop of validate: one message for each ingredient, numbered
\* from 1, that has no allergens field.
MissingAllergensErrors(ings) ==
    LET numbers == SelectSeq([i \in 1..Len(ings) |-> i],
                             LAMBDA i : "allergens" \notin DOMAIN ings[i])
    IN  [i \in 1..Len(numbers) |->
            "Ingredient " \o ToString(numbers[i]) \o " missing allergens field"]

\* The pair validate returns, given its list of errors.
Verdict(errors) == [is_valid |-> Len(errors) = 0, errors |-> errors]

\* validate, were it to refuse a document that lists no ingredient.
validate_nonempty(recipe) ==
    Verdict(MissingFieldErrors(recipe)
            \o (IF GetIngredients(recipe) = <<>>
                THEN <<"No ingredients">> ELSE <<>>)
            \o MissingAllergensErrors(GetIngredients(recipe)))

\* validate, were it to return on the first error.
validate_first_error(recipe) ==
    LET errors == MissingFieldErrors(recipe)
                  \o MissingAllergensErrors(GetIngredients(recipe))
    IN  Verdict(IF errors = <<>> THEN <<>> ELSE <<errors[1]>>)

validate(recipe) ==
    Verdict(MissingFieldErrors(recipe) \o MissingAllergensErrors(GetIngredients(recipe)))


\* ------------------------------------------------------------------------
\* Inputs
\* ------------------------------------------------------------------------

\* The longest line, in tokens, of the exhaustive single-line inputs.
MaxTokens == 4

\* The most lines of a multi-line text.
MaxLines == 2

\* The most ingredient entries of a document given to validate or of a list
\* given to _detect_diet_labels.
MaxIngs == 2

\* Every concatenation of at most n of the tokens.
RECURSIVE TokenLines(_, _)
TokenLines(tokens, n) ==
    IF n = 0 THEN {<<>>}
    ELSE LET shorter == TokenLines(tokens, n - 1)
         IN  shorter \cup {l \o t : l \in shorter, t \in tokens}

\* Every sequence of at most n of the lines.
RECURSIVE Texts(_, _)
Texts(lines, n) ==
    IF n = 0 THEN {<<>>}
    ELSE LET shorter == Texts(lines, n - 1)
         IN  shorter \cup {Append(t, l) : t \in shorter, l \in lines}

SOL == <<"s", "o", "l", "q">>

IngredientTokens ==
    { <<"2">>, <<".">>, <<" ">>, <<"-">>, <<"k", "g">>, <<"x">> }

\* "2<key> соль" and "2 <key> соль" for every key of the unit lexicon.
UnitKeyLines ==
    UNION { { <<"2">> \o UNIT_MAPPING[i].key \o <<" ">> \o SOL,
              <<"2", " ">> \o UNIT_MAPPING[i].key \o <<" ">> \o SOL }
            : i \in DOMAIN UNIT_MAPPING }

\* Lines of the shapes the source's docstrings and examples show.
IngredientSamples ==
    { <<"2", ",", "5", " ", "K", "g", " ", "m", "u", "k", "a">>,
      <<"1", ".", "5", " ", "s", "t", ".", "l", ".", " ", "s", "a", "h", "a", "r", "a">>,
      <<"3", "0", "0", "g", " ", "m", "u", "k", "i">>,
      <<"bullet", " ", "2", " ", "ya", "j", "c", "a">>,
      <<"*", " ", "S", "o", "l", "q", " ", "p", "o", " ", "v", "k", "u", "s", "u">>,
      <<"1", " ", "sch", "e", "p", "o", "t", "k", "a", " ", "s", "o", "l", "i">>,
      <<"2", "0", "0", " ", "m", "l", " ", "m", "o", "l", "o", "k", "a">>,
      <<"5", "0", " ", "g", " ", "o", "r", "e", "h", "i">> }

IngredientLines ==
    TokenLines(IngredientTokens, MaxTokens) \cup UnitKeyLines \cup IngredientSamples

\* Lines of a multi-line text: blank, heading, lone bullet, quantity line,
\* plain line.
TextLines ==
    { <<" ">>,
      <<"S", "o", "s", "t", "a", "v", ":">>,
      <<"-">>,
      <<"2", " ", "k", "g", " ", "m", "u", "k", "a">>,
      SOL }

IngredientTexts ==
    {<<l>> : l \in IngredientLines} \cup (Texts(TextLines, MaxLines) \ {<<>>})

StepTokens ==
    { <<"2">>, <<"4">>, <<"-">>, <<" ">>, MIN, CHAS }

StepSamples ==
    { <<"1", ".", " ", "V", "a", "r", "i", "t", "q", " ", "1", " ", "ch", "a", "s">>,
      <<"Z", "a", "p", "e", "k", "a", "t", "q", " ", "2", "0", "-", "3", "0", " ",
        "m", "i", "n", "u", "t", " ", "p", "r", "i", " ", "1", "8", "0", "deg">>,
      <<"2", ")", " ", "d", "o", "b", "a", "v", "i", "t", "q", " ", "s", "o", "l", "q">> }

StepLines == TokenLines(StepTokens, MaxTokens) \cup StepSamples

\* Lines of a steps text: blank, heading, numbered line with a time.
StepTextLines ==
    { <<>>,
      <<"Sh", "a", "g", "i">>,
      <<"1", ".", " ", "v", "a", "r", "i", "t", "q", " ", "5", " ", "m", "i", "n">> }

StepTexts ==
    {<<l>> : l \in StepLines} \cup (Texts(StepTextLines \cup {SOL}, MaxLines) \ {<<>>})

\* What uuid.uuid4() can return.
UUIDs == {"u1", "u2"}

\* What datetime.utcnow().isoformat() can return.
Timestamps == {"t1", "t2"}

\* The arguments of convert; the keyword arguments keep their defaults
\* unless given.
ConvertArgs(ingredients_text, steps_text, source_url) ==
    [name |-> "recipe", ingredients_text |-> ingredients_text,
     steps_text |-> steps_text, description |-> "", servings |-> <<4>>,
     prep_time |-> None, cook_time |-> None, difficulty |-> "intermediate",
     cuisine |-> <<>>, author |-> "Web Source", source_url |-> source_url]

\* The texts given to convert: None, '', or lines.
EmptyText == << <<>> >>

ConvertIngredientTexts ==
    {None, EmptyText} \cup Texts(TextLines \ {<<"-">>}, MaxLines)

\* The steps texts given to convert: None, '', one step, two steps, and a
\* heading before a step.
ConvertStepTexts ==
    {None, EmptyText}
    \cup {t \in Texts(StepTextLines \ {<<>>}, 2) :
            t # <<>> /\ ~startswith(t[Len(t)], <<"Sh">>)}

\* The categories of ALLERGEN_KEYWORDS.
AllergenTags == {ALLERGEN_KEYWORDS[i].allergen : i \in 1..Len(ALLERGEN_KEYWORDS)}

\* Ingredient entries a caller can hand to _detect_diet_labels: no allergens
\* field, no allergen, one allergen, and the pair flour gives.
LabelledEntries ==
    { [name |-> SOL], [name |-> SOL, allergens |-> <<>>],
      [name |-> SOL, allergens |-> <<"wheat", "gluten">>] }
    \cup { [name |-> SOL, allergens |-> <<t>>] : t \in AllergenTags }

\* Documents a caller can hand to validate: any of the required fields
\* missing, ingredient entries with and without an allergens field.
IngredientEntries ==
    { [name |-> SOL, allergens |-> <<>>], [name |-> SOL] }

FullDocument(ings) ==
    [rcip_version |-> "0.1", id |-> "rcip-u1", meta |-> [name |-> "recipe"],
     ingredients |-> ings, steps |-> <<>>]

Documents ==
    { [f \in fields |-> FullDocument(ings)[f]] :
        fields \in SUBSET Range(RequiredFields),
        ings \in Texts(IngredientEntries, MaxIngs) }

\* ------------------------------------------------------------------------
\* The converter as its callers drive it
\* ------------------------------------------------------------------------

\* Each section below says what the variables keep for its own actions
\* where that differs from the following.
VARIABLES
    pc,       \* "idle", or the method that returned last
    text,     \* the text argument of parse_ingredients / parse_steps
    args,     \* the arguments of convert
    parsed,   \* what parse_ingredients / parse_steps returned
    recipe,   \* the document convert returned, or the one given to validate
    result    \* what validate or _detect_diet_labels returned

vars == <<pc, text, args, parsed, recipe, result>>

Init ==
    /\ pc = "idle"
    /\ text = None
    /\ args = None
    /\ parsed = <<>>
    /\ recipe = None
    /\ result = None

ParseIngredients ==
    /\ pc = "idle"
    /\ \E t \in IngredientTexts :
        /\ text' = t
        /\ parsed' = parse_ingredients(t)
    /\ pc' = "parse_ingredients"
    /\ UNCHANGED <<args, recipe, result>>

ParseSteps ==
    /\ pc = "idle"
    /\ \E t \in StepTexts :
        /\ text' = t
        /\ parsed' = parse_steps(t)
    /\ pc' = "parse_steps"
    /\ UNCHANGED <<args, recipe, result>>

Convert ==
    /\ pc = "idle"
    /\ \E ingredients_text \in ConvertIngredientTexts,
          steps_text \in ConvertStepTexts,
          source_url \in {"", "http://source"},
          uuid \in UUIDs,
          created \in Timestamps,
          converted \in Timestamps :
        LET a == ConvertArgs(ingredients_text, steps_text, source_url)
        IN  /\ args' = a
            /\ recipe' = convert(a, uuid, created, converted)
    /\ pc' = "convert"
    /\ UNCHANGED <<text, parsed, result>>

\* validate, on the document convert just returned or on a document of the
\* caller's.
Validate ==
    /\ \/ /\ pc = "convert"
          /\ UNCHANGED <<args, recipe>>
       \/ /\ pc = "idle"
          /\ recipe' \in Documents
          /\ UNCHANGED args
    /\ result' = validate(recipe')
    /\ pc' = "validate"
    /\ UNCHANGED <<text, parsed>>

\* _detect_diet_labels on a list of ingredient entries of the caller's.
DetectDietLabels ==
    /\ pc = "idle"
    /\ \E ingredients \in Texts(LabelledEntries, MaxIngs) :
        /\ recipe' = [ingredients |-> ingredients]
        /\ result' = _detect_diet_labels(ingredients)
    /\ pc' = "_detect_diet_labels"
    /\ UNCHANGED <<text, args, parsed>>

\* The caller takes the result; the converter keeps nothing between calls.
Return ==
    /\ pc # "idle"
    /\ pc' = "idle"
    /\ text' = None
    /\ args' = None
    /\ parsed' = <<>>
    /\ recipe' = None
    /\ result' = None

Next ==
    \/ ParseIngredients
    \/ ParseSteps
    \/ Convert
    \/ Validate
    \/ DetectDietLabels
    \/ Return

Spec == Init /\ [][Next]_vars


\* ------------------------------------------------------------------------
\* Properties
\* ------------------------------------------------------------------------

\* The lines of a text that give a record: not blank, and not beginning,
\* once trimmed and lowered, with a heading phrase.
DataLines(t, headings) ==
    SelectSeq([i \in 1..Len(t) |-> strip(t[i])],
              LAMBDA l : l # <<>> /\ \A h \in headings : ~startswith(lower(l), h))

\* The base unit of each unit that is a multiple of a gram or a millilitre.
BaseUnit ==
    [kg |-> "g", l |-> "ml", tsp |-> "ml", tbsp |-> "ml", cup |-> "ml"]

\* The entries of the lexicon whose key is the unit token and whose unit
\* has a base unit.
ScaledEntries(token) ==
    {e \in 1..Len(UNIT_MAPPING) :
        /\ UNIT_MAPPING[e].key = lower(token)
        /\ UNIT_MAPPING[e].unit \in DOMAIN BaseUnit}

\* The claim of C1 about the record rec of a line that matched with the
\* groups m.
BaseUnitStored(rec, m) ==
    (m.matched /\ m.g2 # None) =>
        \A e \in ScaledEntries(m.g2) :
            /\ FracEq(rec.value, FracMul(float(replace_comma(m.g1)),
                                         UNIT_MAPPING[e].multiplier))
            /\ rec.unit = BaseUnit[UNIT_MAPPING[e].unit]

\* C1: for every ingredient line "<number><unit> <name>" whose unit token
\* is a key of the lexicon with a multiplier other than 1, the record
\* parse_ingredients gives has quantity = number * multiplier and the base
\* unit of that multiplier as its unit: "g" for a kilogram token, "ml" for a
\* litre, spoon or cup token.  (The code multiplies and keeps the unit:
\* "2 кг сахара" gives 2000 "kg".)
C1_BaseUnitStored ==
    pc = "parse_ingredients" =>
        \A i \in 1..Len(parsed) :
            BaseUnitStored(parsed[i], re_match_quantity(parsed[i].amount))

\* The claim of C2 about the time of a step, given the range and the hours
\* found in its lowered text.
RangeAveraged(step, range, hours, minute) ==
    /\ range # None =>
        step.time_minutes = <<(int(range[1]) + int(range[2])) \div 2>>
    /\ (hours # None /\ ~minute) => step.time_minutes = <<int(hours[1]) * 60>>

\* C2: for every step line that holds a range "<a>-<b> мин" the time
\* extracted is floor((a + b) / 2), and for a line that holds "<n> час" and
\* no mention of minutes it is n * 60.  (The code tries (\d+)\s*мин first,
\* which matches "<b> мин" of every range: "2-4 мин" gives 4.)
C2_RangeAveraged ==
    pc = "parse_steps" =>
        \A i \in 1..Len(parsed) :
            RangeAveraged(parsed[i],
                          re_search_range(lower(parsed[i].text), MIN),
                          re_search_number_word(lower(parsed[i].text), CHAS),
                          In(MIN, lower(parsed[i].text)))

\* validate has run on the document convert returned for ingredients text
\* that was None or ''.
ValidatedWithoutIngredients ==
    /\ pc = "validate"
    /\ DOMAIN args # {}
    /\ ~TruthyText(args.ingredients_text)

\* C3, as claimed: the document convert gives for absent or empty
\* ingredients text has an empty ingredients sequence, and validate reports
\* it as invalid, with at least one error.
C3_EmptyIngredientsInvalid ==
    ValidatedWithoutIngredients =>
        /\ recipe.ingredients = <<>>
        /\ ~result.is_valid
        /\ Len(result.errors) >= 1

\* C3, amended: the document convert gives for absent or empty ingredients
\* text has an empty ingredients sequence, and validate reports it as valid:
\* true, with no error.
C3_EmptyIngredientsValid ==
    ValidatedWithoutIngredients =>
        /\ recipe.ingredients = <<>>
        /\ result = [is_valid |-> TRUE, errors |-> <<>>]

\* The case of C3: convert was given '' for the ingredients and steps to
\* parse, and validate has answered on its document.
C3_Witness ==
    /\ ValidatedWithoutIngredients
    /\ args.ingredients_text = EmptyText
    /\ recipe.steps # <<>>
    /\ result.is_valid

\* The id of the i-th ingredient and of the i-th step, for i below 10.
IngredientId(i) == "ing-000" \o ToString(i)

StepId(i) == "s-0" \o ToString(i)

\* The lines of a text argument of convert that give a record.
RecordLines(t, headings) ==
    IF TruthyText(t) THEN DataLines(t, headings) ELSE <<>>

\* The ids of the list are those of 1..n, in this order.
Contiguous(list, n, field, Id(_)) ==
    /\ Len(list) = n
    /\ \A i \in 1..n : list[i][field] = Id(i)

\* C4: in every document convert gives, the ingredient ids are ing-0001,
\* ing-0002, ..., ing-000N and the step ids s-01, ..., s-0M, in input order
\* without gap or repeat, N and M being the numbers of lines that gave a
\* record: blank lines and heading lines consume no id.
C4_ContiguousIds ==
    pc = "convert" =>
        /\ Contiguous(recipe.ingredients,
                      Len(RecordLines(args.ingredients_text, IngredientHeadings)),
                      "id", IngredientId)
        /\ Contiguous(recipe.steps,
                      Len(RecordLines(args.steps_text, StepHeadings)),
                      "step_id", StepId)
        /\ \A i \in 1..Len(recipe.ingredients) :
            recipe.ingredients[i].human_amount =
                strip_bullet(RecordLines(args.ingredients_text, IngredientHeadings)[i])

\* The case of C4: a heading line was skipped before the line that gave
\* the first ingredient, and a step was numbered too.
C4_Witness ==
    /\ pc = "convert"
    /\ Len(args.ingredients_text) = 2
    /\ startswith(lower(args.ingredients_text[1]), <<"s", "o", "s", "t", "a", "v">>)
    /\ Len(recipe.ingredients) = 1
    /\ recipe.ingredients[1].id = "ing-0001"
    /\ Len(recipe.steps) = 2
    /\ recipe.steps[2].step_id = "s-02"

\* The claim of C5 about the record rec of the line, markers stripped.
DefaultShaped(rec, line) ==
    (line = <<>> \/ line[1] \notin Digit) =>
        /\ rec.value = FracOfInt(0)
        /\ rec.unit = "to-taste"
        /\ rec.name = strip(line)

\* C5: for every ingredient line that does not begin, once its bullet is
\* stripped, with a number, the record has quantity 0, unit "to-taste" and
\* the whole trimmed line as its name.
C5_NoNumberToTaste ==
    pc = "parse_ingredients" =>
        /\ Len(parsed) = Len(DataLines(text, IngredientHeadings))
        /\ \A i \in 1..Len(parsed) :
            DefaultShaped(parsed[i],
                          strip_bullet(DataLines(text, IngredientHeadings)[i]))

\* The case of C5: a bulleted line without a number gave a record named
\* by what follows the bullet.
C5_Witness ==
    /\ pc = "parse_ingredients"
    /\ text = << <<"*", " ", "S", "o", "l", "q", " ", "p", "o", " ", "v", "k", "u", "s", "u">> >>
    /\ Len(parsed) = 1
    /\ parsed[1].value = FracOfInt(0)
    /\ parsed[1].unit = "to-taste"
    /\ parsed[1].name = <<"S", "o", "l", "q", " ", "p", "o", " ", "v", "k", "u", "s", "u">>

\* The labels are those the allergens of the ingredients call for.
DietLabelsExact(labels, ingredients) ==
    LET all == UNION {GetAllergens(ingredients[i]) : i \in 1..Len(ingredients)}
    IN  /\ "gluten-free" \in Range(labels)
            <=> ("gluten" \notin all /\ "wheat" \notin all)
        /\ "dairy-free" \in Range(labels)
            <=> ("milk" \notin all /\ "lactose" \notin all)
        /\ "nut-free" \in Range(labels)
            <=> ("tree-nuts" \notin all /\ "peanuts" \notin all)
        /\ Range(labels) \subseteq {"gluten-free", "dairy-free", "nut-free"}
        /\ Cardinality(Range(labels)) = Len(labels)

C7_NameNonEmpty ==
    pc = "parse_ingredients" =>
        \A i \in 1..Len(parsed) : strip(parsed[i].name) # <<>>

\* The records are those of the lines of the text that are not blank and
\* no headings, one each, in the order of the lines.
OnePerDataLine(records, lines, field, Strip(_)) ==
    /\ Len(records) = Len(lines)
    /\ \A i \in 1..Len(lines) : records[i][field] = Strip(lines[i])

\* A line that matches no pattern gives a record of the default shape.
DefaultRecord(rec) ==
    IF "amount" \in DOMAIN rec
    THEN re_match_quantity(rec.amount).matched
            \/ (rec.value = FracOfInt(0) /\ rec.unit = "to-taste")
    ELSE (\E k \in 1..Len(rec.text) : rec.text[k] \in Digit)
            \/ (rec.time_minutes = None /\ rec.temperature_c = None)

\* C8: parse_ingredients and parse_steps drop no line: the records they
\* return are, in input order, one for each line that is not blank and not
\* a heading, and a line that matches no pattern gives a record of the
\* default shape.  (That they never raise shows in every call of the model
\* having a result.)
C8_OneRecordPerLine ==
    /\ pc = "parse_ingredients" =>
        OnePerDataLine(parsed, DataLines(text, IngredientHeadings), "amount",
                       strip_bullet)
    /\ pc = "parse_steps" =>
        OnePerDataLine(parsed, DataLines(text, StepHeadings), "text",
                       LAMBDA l : strip_bullet(strip_numbering(l)))
    /\ pc \in {"parse_ingredients", "parse_steps"} =>
        \A i \in 1..Len(parsed) : DefaultRecord(parsed[i])

\* The case of C8: a line that is only a bullet and a line without number
\* gave a record each.
C8_Witness ==
    /\ pc = "parse_ingredients"
    /\ text = << <<"-">>, SOL >>
    /\ Len(parsed) = 2
    /\ parsed[2].name = SOL

\* The unit codes of UNIT_MAPPING, with "to-taste" and "pcs" of the
\* defaults.
NormalizedUnits ==
    {"kg", "g", "mg", "l", "ml", "tsp", "tbsp", "cup", "pcs", "pinch", "to-taste"}

\* C9: every ingredient record has a quantity that is not negative and a
\* unit that is one of kg, g, mg, l, ml, tsp, tbsp, cup, pcs, pinch,
\* to-taste, never the unit token of the line.
C9_NormalizedUnit ==
    /\ pc = "parse_ingredients" =>
        \A i \in 1..Len(parsed) :
            /\ parsed[i].value.num >= 0
            /\ parsed[i].value.den > 0
            /\ parsed[i].unit \in NormalizedUnits
    /\ pc = "convert" =>
        \A i \in 1..Len(recipe.ingredients) :
            /\ recipe.ingredients[i].machine_amount.value.num >= 0
            /\ recipe.ingredients[i].machine_amount.unit \in NormalizedUnits

\* The case of C9: a unit token that holds no key of the lexicon, ".", gave
\* the unit pcs.
C9_Witness ==
    /\ pc = "parse_ingredients"
    /\ text = << <<"2", ".", " ", "x">> >>
    /\ Len(parsed) = 1
    /\ parsed[1].name = <<"x">>
    /\ parsed[1].unit = "pcs"

\* The required fields the document lacks.
MissingFields(doc) == {f \in Range(RequiredFields) : f \notin DOMAIN doc}

\* The numbers, from 1, of the ingredients that have no allergens field.
Unlabelled(ings) == {i \in 1..Len(ings) : "allergens" \notin DOMAIN ings[i]}

\* The list holds one error for each violation, and no other.
AllViolations(errors, missing, unlabelled) ==
    /\ Len(errors) = Cardinality(missing) + Cardinality(unlabelled)
    /\ \A f \in missing : ("Missing required field: " \o f) \in Range(errors)
    /\ \A i \in unlabelled :
        ("Ingredient " \o ToString(i) \o " missing allergens field")
            \in Range(errors)

\* C10: validate reports every violation and does not stop at the first:
\* for any document its list of errors has one entry for each required
\* field that is missing (rcip_version, id, meta, ingredients, steps) and
\* one for each ingredient without an allergens field, and its boolean is
\* true iff the list is empty.
C10_AllViolations ==
    pc = "validate" =>
        /\ AllViolations(result.errors, MissingFields(recipe),
                         Unlabelled(GetIngredients(recipe)))
        /\ result.is_valid <=> result.errors = <<>>

\* The case of C10: a document without meta and steps whose two
\* ingredients have no allergens field gets four errors.
C10_Witness ==
    /\ pc = "validate"
    /\ MissingFields(recipe) = {"meta", "steps"}
    /\ Unlabelled(recipe.ingredients) = {1, 2}
    /\ Len(result.errors) = 4
    /\ ~result.is_valid

\* validate has run on the document convert returned for ingredients text
\* and steps text that were not empty.
ValidatedRoundTrip ==
    /\ pc = "validate"
    /\ DOMAIN args # {}
    /\ TruthyText(args.ingredients_text)
    /\ TruthyText(args.steps_text)

\* C11: for every non-empty ingredients text and steps text,
\* validate(convert(name, ingredients_text, steps_text)) returns (True, []);
\* every ingredient convert builds has an allergens field, an empty list
\* when no allergen is detected.
C11_RoundTripValid ==
    ValidatedRoundTrip =>
        /\ result = [is_valid |-> TRUE, errors |-> <<>>]
        /\ \A i \in 1..Len(recipe.ingredients) :
            /\ "allergens" \in DOMAIN recipe.ingredients[i]
            /\ recipe.ingredients[i].allergens =
                   _detect_allergens(recipe.ingredients[i].name)

\* The case of C11: a document with an ingredient in which an allergen was
\* detected, after a heading line that gave none, and a step.
C11_Witness ==
    /\ ValidatedRoundTrip
    /\ Len(recipe.ingredients) = 1
    /\ recipe.ingredients[1].allergens # <<>>
    /\ Len(recipe.steps) = 1
    /\ result.is_valid

\* ------------------------------------------------------------------------
\* Two calls of convert with the same arguments
\* ------------------------------------------------------------------------

\* The ingredients texts of the first of two calls: None, '', or one line.
RepeatIngredientTexts ==
    {None, EmptyText} \cup {<<l>> : l \in TextLines}

\* The first call of convert.
ConvertFirst ==
    /\ pc = "idle"
    /\ \E ingredients_text \in RepeatIngredientTexts,
          steps_text \in ConvertStepTexts,
          source_url \in {"", "http://source"},
          uuid \in UUIDs,
          created \in Timestamps,
          converted \in Timestamps :
        LET a == ConvertArgs(ingredients_text, steps_text, source_url)
        IN  /\ args' = a
            /\ recipe' = convert(a, uuid, created, converted)
    /\ pc' = "convert_first"
    /\ UNCHANGED <<text, parsed, result>>

\* The caller calls convert again with the arguments of the call that just
\* returned; uuid4() and the clock answer anew.
ConvertAgain ==
    /\ pc = "convert_first"
    /\ \E uuid \in UUIDs, created \in Timestamps, converted \in Timestamps :
        result' = convert(args, uuid, created, converted)
    /\ pc' = "convert_again"
    /\ UNCHANGED <<text, args, parsed, recipe>>

NextRepeat ==
    \/ ConvertFirst
    \/ ConvertAgain
    \/ Return

SpecRepeat == Init /\ [][NextRepeat]_vars

\* The record without the fields of `except`.
Without(record, except) == [f \in DOMAIN record \ except |-> record[f]]

\* The document without its id and its two dates.
Undated(doc) ==
    [f \in DOMAIN doc \ {"id"} |->
        IF f = "meta" THEN Without(doc.meta, {"created_date"})
        ELSE IF f = "extensions" THEN Without(doc.extensions, {"converted_date"})
        ELSE doc[f]]

\* C12: two calls of convert with identical arguments return documents
\* that agree on every field except id, meta.created_date and
\* extensions.converted_date.
C12_SameButIdAndDates ==
    pc = "convert_again" =>
        /\ DOMAIN recipe = DOMAIN result
        /\ DOMAIN recipe.meta = DOMAIN result.meta
        /\ Undated(recipe) = Undated(result)

\* The case of C12: the two documents differ in id and in both dates, and
\* hold an ingredient and a step.
C12_Witness ==
    /\ pc = "convert_again"
    /\ recipe.id # result.id
    /\ recipe.meta.created_date # result.meta.created_date
    /\ "extensions" \in DOMAIN recipe
    /\ recipe.extensions.converted_date # result.extensions.converted_date
    /\ recipe.ingredients # <<>>
    /\ recipe.steps # <<>>

\* ------------------------------------------------------------------------
\* The Schema.org adapter
\* ------------------------------------------------------------------------

\* Python values of schema_data that are no plain int: the type paired with
\* the value.  An int n is <<n>>, as for the servings of convert; None is <<>>.
PyStr(value) == <<"str", value>>

PyList(items) == <<"list", items>>

PyDict(record) == <<"dict", record>>

\* isinstance(v, str), isinstance(v, list), isinstance(v, dict)
IsStr(v) == Len(v) = 2 /\ v[1] = "str"

IsList(v) == Len(v) = 2 /\ v[1] = "list"

IsDict(v) == Len(v) = 2 /\ v[1] = "dict"

\* not v, of a value that is no str
Falsy(v) == v = None \/ v = <<0>> \/ (IsList(v) /\ v[2] = <<>>)

\* schema_data.get(key, default)
Get(schema_data, key, default) ==
    IF key \in DOMAIN schema_data THEN schema_data[key] ELSE default

\* The texts x and y joined by sep: the last line of x runs on into the
\* first line of y.
JoinWith(sep, x, y) ==
    SubSeq(x, 1, Len(x) - 1) \o << x[Len(x)] \o sep \o y[1] >> \o Tail(y)

\* The join, were the separator a space.
RECURSIVE str_join_space(_)
str_join_space(list) ==
    IF list = <<>> THEN EmptyText
    ELSE IF Len(list) = 1 THEN list[1]
    ELSE JoinWith(<<" ">>, list[1], str_join_space(Tail(list)))

\* '\n'.join(list), of strings given as texts.
RECURSIVE str_join(_)
str_join(list) ==
    IF list = <<>> THEN EmptyText
    ELSE IF Len(list) = 1 THEN list[1]
    ELSE list[1] \o str_join(Tail(list))

\* re.search(r'\d+', s): the leftmost run of digits, or None.
re_search_digits(s) == OneGroup(s, RunStarts(s))

\* re.search(r'(\d+)<letter>', s): group 1 of the leftmost match, or None.
re_search_number_letter(s, letter) ==
    OneGroup(s, {i \in RunStarts(s) : At(s, RunEnd(s, i, Digit), <<letter>>)})

\* The Latin capitals H and M of an ISO 8601 duration (the atoms "H" and "M"
\* are Cyrillic letters).
LatinH == "LatinH"

LatinM == "LatinM"

\* The sum _parse_iso_duration returns, given its two matches.
MinutesOf(hours_match, minutes_match) ==
    (IF hours_match # None THEN int(hours_match[1]) * 60 ELSE 0)
    + (IF minutes_match # None THEN int(minutes_match[1]) ELSE 0)

OptionalMinutes(minutes) == IF minutes > 0 THEN <<minutes>> ELSE None

_parse_iso_duration(duration) ==
    IF duration = <<>> THEN None
    ELSE OptionalMinutes(MinutesOf(re_search_number_letter(duration, LatinH),
                                   re_search_number_letter(duration, LatinM)))

\* The author from_schema_org passes on.
AuthorOf(author_data) ==
    IF IsDict(author_data) THEN Get(author_data[2], "name", "Unknown")
    ELSE author_data[2]

\* The servings from_schema_org passes on, given what matched \d+ when
\* recipeYield is a str.
ServingsOf(servings, digits) ==
    IF IsStr(servings) THEN (IF digits # None THEN <<int(digits[1])>> ELSE <<4>>)
    ELSE IF Falsy(servings) THEN <<4>>
    ELSE servings

\* step.get('text', str(step)) if isinstance(step, dict) else str(step); the
\* dicts of the model without 'text' are empty, and str({}) is '{}'.
StepText(step) ==
    IF IsDict(step) THEN Get(step[2], "text", << <<"{", "}">> >>) ELSE step[2]

\* The steps_text from_schema_org passes on.
StepsTextOf(instructions) ==
    IF IsStr(instructions) THEN instructions[2]
    ELSE IF IsList(instructions)
        THEN str_join([i \in 1..Len(instructions[2]) |-> StepText(instructions[2][i])])
    ELSE EmptyText

\* The arguments with which from_schema_org calls convert.
SchemaArgs(schema_data, servings) ==
    [name |-> Get(schema_data, "name", "Unknown Recipe"),
     ingredients_text |-> str_join(Get(schema_data, "recipeIngredient", <<>>)),
     steps_text |-> StepsTextOf(Get(schema_data, "recipeInstructions", PyList(<<>>))),
     description |-> Get(schema_data, "description", ""),
     servings |-> ServingsOf(servings,
                     IF IsStr(servings) THEN re_search_digits(servings[2]) ELSE None),
     prep_time |-> _parse_iso_duration(Get(schema_data, "prepTime", <<>>)),
     cook_time |-> _parse_iso_duration(Get(schema_data, "cookTime", <<>>)),
     difficulty |-> "intermediate",
     cuisine |-> <<>>,
     author |-> AuthorOf(Get(schema_data, "author", PyDict(<<>>))),
     source_url |-> ""]

\* from_schema_org(schema_data); uuid and created as for convert.
from_schema_org(schema_data, uuid, created) ==
    convert(SchemaArgs(schema_data, Get(schema_data, "recipeYield", None)),
            uuid, created, created)

\* The values of recipeYield: 0, a number, strings with a number, with 0 and
\* without digits, a list of one string and the empty list.
Yields ==
    { <<0>>, <<6>>,
      PyStr(<<"6", " ", "p", "o", "r", "c", "i", "j">>),
      PyStr(<<"n", "a", " ", "1", "2", " ", "sh", "t">>),
      PyStr(<<"0">>),
      PyStr(<<"m", "n", "o", "g", "o">>),
      PyList(<< <<"6", " ", "p", "o", "r", "c", "i", "j">> >>),
      PyList(<<>>) }

\* The strings of a recipeIngredient list: '', a heading, a line with a
\* quantity, a line without.
IngredientItems ==
    { EmptyText,
      << <<"S", "o", "s", "t", "a", "v", ":">> >>,
      << <<"2", " ", "k", "g", " ", "m", "u", "k", "a">> >>,
      << SOL >> }

VARIT == <<"1", ".", " ", "v", "a", "r", "i", "t", "q", " ", "5", " ", "m", "i", "n">>

\* The other fields of schema_data: none; all of them, with author and
\* instructions as Schema.org types them; plain strings and step lists.
OtherFields ==
    { <<>>,
      [name |-> "Pie", description |-> "A pie",
       author |-> PyDict([name |-> "Chef"]),
       prepTime |-> <<"P", "T", "3", "0", LatinM>>,
       cookTime |-> <<"P", "T", "1", LatinH, "3", "0", LatinM>>,
       recipeInstructions |->
           PyList(<<PyDict([text |-> <<VARIT>>]), PyStr(<<SOL>>), PyDict(<<>>)>>)],
      [name |-> "Pie", author |-> PyStr("Chef"),
       prepTime |-> <<"P", "T", "0", LatinM>>,
       cookTime |-> <<"P", "T", "2", LatinH>>,
       recipeInstructions |-> PyStr(<<VARIT, SOL>>)],
      [author |-> PyDict(<<>>), prepTime |-> <<"P", "T", "5", LatinM>>,
       recipeInstructions |-> PyDict([text |-> <<VARIT>>])] }

\* The objects given to from_schema_org: each recipeYield, or each list of
\* ingredients with a recipeYield to parse, beside the other fields.
SchemaObjects ==
    { yield @@ other :
        yield \in {<<>>} \cup {[recipeYield |-> y] : y \in Yields},
        other \in OtherFields }
    \cup
    { [recipeIngredient |-> list, recipeYield |-> PyStr(<<"2">>)] @@ other :
        list \in Texts(IngredientItems, MaxLines),
        other \in OtherFields }

\* from_schema_org on an object of the caller's; `text` keeps the object and
\* `args` what the adapter passed to convert.
FromSchemaOrg ==
    /\ pc = "idle"
    /\ \E schema_data \in SchemaObjects, uuid \in UUIDs, created \in Timestamps :
        /\ text' = schema_data
        /\ args' = SchemaArgs(schema_data, Get(schema_data, "recipeYield", None))
        /\ recipe' = from_schema_org(schema_data, uuid, created)
    /\ pc' = "from_schema_org"
    /\ UNCHANGED <<parsed, result>>

NextSchema ==
    \/ FromSchemaOrg
    \/ Return

SpecSchema == Init /\ [][NextSchema]_vars

\* The list joined with newlines, each of its strings being one line.
NewlineJoined(list) ==
    IF list = <<>> THEN EmptyText ELSE [i \in 1..Len(list) |-> list[i][1]]

\* C13: for every Schema.org object whose recipeIngredient is a list of K
\* strings, the ingredient records of from_schema_org's document are those
\* convert gives for the newline-joined list as ingredients text: the same
\* records in the same order with the same ids.
C13_AdapterUsesParser ==
    pc = "from_schema_org" =>
        recipe.ingredients =
            convert(ConvertArgs(NewlineJoined(Get(text, "recipeIngredient", <<>>)),
                                None, ""),
                    "u1", "t1", "t1").ingredients

\* The case of C13: a list of two strings that gave two records.
C13_Witness ==
    /\ pc = "from_schema_org"
    /\ "recipeIngredient" \in DOMAIN text
    /\ Len(text.recipeIngredient) = 2
    /\ Len(recipe.ingredients) = 2
    /\ recipe.ingredients[2].id = "ing-0002"
    /\ recipe.ingredients[1].machine_amount.unit = "kg"

\* The servings the claim of C14 expects for recipeYield.
ExpectedServings(yield) ==
    IF Len(yield) = 1 THEN yield[1]
    ELSE IF IsStr(yield) /\ \E k \in 1..Len(yield[2]) : yield[2][k] \in Digit
        THEN int(NumberAt(yield[2],
                          Least({k \in 1..Len(yield[2]) : yield[2][k] \in Digit})))
    ELSE 4

\* C14: the servings from_schema_org passes to convert is always an
\* integer: the number itself for a numeric recipeYield, the integer parsed
\* from a string recipeYield, and 4 when recipeYield is absent or cannot be
\* parsed to an integer, a list or a string without digits for instance.
\* (The code passes a non-empty list on as it is, and gives 4 for 0.)
C14_ServingsInteger ==
    pc = "from_schema_org" =>
        /\ Len(args.servings) = 1
        /\ args.servings[1] = ExpectedServings(Get(text, "recipeYield", None))

\* ------------------------------------------------------------------------
\* The keyword scans over the lexicons
\* ------------------------------------------------------------------------

\* The most tokens of a step line or of an ingredient name made of keywords.
MaxWords == 3

\* Tokens of step lines: варить (boil), жарь (fry), Добавь (add), a space
\* and a word that is no keyword.
ActionTokens ==
    { <<"v", "a", "r", "i", "t", "q">>, <<"zh", "a", "r", "q">>,
      <<"D", "o", "b", "a", "v", "q">>, <<" ">>, SOL }

\* parse_steps on one line made of the tokens.
ParseKeywordSteps ==
    /\ pc = "idle"
    /\ \E line \in TokenLines(ActionTokens, MaxWords) :
        /\ text' = <<line>>
        /\ parsed' = parse_steps(<<line>>)
    /\ pc' = "parse_steps"
    /\ UNCHANGED <<args, recipe, result>>

\* Tokens of ingredient names: the halves of молоко (milk, lactose), Мука
\* (wheat, gluten) and a space.
AllergenTokens ==
    { <<"m", "o", "l">>, <<"o", "k", "o">>, <<"M", "u", "k", "a">>, <<" ">> }

\* The names and the texts appended to them.
Names == TokenLines(AllergenTokens, MaxWords - 1)

\* _detect_allergens on a name and on the name with a text appended; `text`
\* keeps the two and `result` the two lists.
DetectAllergens ==
    /\ pc = "idle"
    /\ \E name \in Names, appended \in Names :
        /\ text' = <<name, appended>>
        /\ result' = <<_detect_allergens(name), _detect_allergens(name \o appended)>>
    /\ pc' = "_detect_allergens"
    /\ UNCHANGED <<args, parsed, recipe>>

NextLexicon ==
    \/ ParseKeywordSteps
    \/ DetectAllergens
    \/ Return

SpecLexicon == Init /\ [][NextLexicon]_vars

\* The fixed set of action tags.
ActionTags ==
    {"add", "mix", "combine", "blend", "cut", "slice", "mince", "boil",
     "simmer", "fry", "bake", "cool", "knead", "roll", "strain", "rest",
     "garnish", "prepare"}

\* The places in the lexicon of the keywords that occur in the line.
KeywordsIn(line) ==
    {k \in 1..Len(ACTION_MAPPING) : In(ACTION_MAPPING[k].keyword, lower(line))}

\* The tag is that of the keyword of `hits` that the lexicon declares first,
\* "prepare" when there is none.
FirstDeclared(tag, hits) ==
    /\ tag \in ActionTags
    /\ hits = {} => tag = "prepare"
    /\ hits # {} =>
        \E k \in hits : tag = ACTION_MAPPING[k].action /\ \A j \in hits : k <= j

\* C15: every parsed step has one action tag of the fixed set: when the
\* line holds keywords of several actions, the tag of the keyword that comes
\* first in the declared order of the lexicon, not in the line; "prepare"
\* when no keyword occurs.
C15_FirstDeclaredAction ==
    pc = "parse_steps" =>
        /\ \A k \in 1..Len(ACTION_MAPPING) : ACTION_MAPPING[k].action \in ActionTags
        /\ \A i \in 1..Len(parsed) :
            FirstDeclared(parsed[i].action, KeywordsIn(parsed[i].text))

\* The case of C15: жарь comes before варить in the line and after it in
\* the lexicon; the tag is boil.
C15_Witness ==
    /\ pc = "parse_steps"
    /\ text = << <<"zh", "a", "r", "q", " ", "v", "a", "r", "i", "t", "q">> >>
    /\ Len(parsed) = 1
    /\ parsed[1].action = "boil"

\* C16: allergen detection is monotonic: for every name and every text
\* appended to it, the allergens detected for the name with the text are a
\* superset of those detected for the name.
C16_AllergensMonotonic ==
    pc = "_detect_allergens" => Range(result[1]) \subseteq Range(result[2])

\* The case of C16: the name has the allergens of flour, and the text
\* appended completes молоко, which adds those of milk.
C16_Witness ==
    /\ pc = "_detect_allergens"
    /\ text = << <<"M", "u", "k", "a", "m", "o", "l">>, <<"o", "k", "o">> >>
    /\ Range(result[1]) = {"wheat", "gluten"}
    /\ Range(result[2]) = {"wheat", "gluten", "milk", "lactose"}

\* ------------------------------------------------------------------------
\* The agent: the LLM fallback
\* ------------------------------------------------------------------------

\* A Python string that may hold newlines is a sequence of characters with
\* the character "\n"; the texts above are its lines.
NL == <<"\n">>

\* The literal markers of the answer format; their letters are Latin.
STEPS_MARKER == <<"LatinS", "LatinT", "LatinE", "LatinP", "LatinS", ":">>

INGREDIENTS_MARKER ==
    <<"LatinI", "LatinN", "LatinG", "LatinR", "LatinE", "LatinD", "LatinI",
      "LatinE", "LatinN", "LatinT", "LatinS", ":">>

\* str.split(sep)
RECURSIVE str_split(_, _)
str_split(s, sep) ==
    IF ~In(sep, s) THEN <<s>>
    ELSE <<SubSeq(s, 1, Least({i \in 1..Len(s) : At(s, i, sep)}) - 1)>>
         \o str_split(From(s, Least({i \in 1..Len(s) : At(s, i, sep)}) + Len(sep)), sep)

\* str.replace(old, new)
RECURSIVE str_replace(_, _, _)
str_replace(s, old, new) ==
    IF ~In(old, s) THEN s
    ELSE SubSeq(s, 1, Least({i \in 1..Len(s) : At(s, i, old)}) - 1) \o new
         \o str_replace(From(s, Least({i \in 1..Len(s) : At(s, i, old)}) + Len(old)), old, new)

\* str.strip() on a string that may hold newlines.
strip_text(s) == strip_chars(s, Whitespace \cup {"\n"})

\* The lines of a string: the text as the parsers take it.
LinesOf(s) == str_split(s, NL)

\* The parts, were the response split at the first marker only.
MarkerParts_at_first(response) ==
    IF ~In(STEPS_MARKER, response) THEN <<response>>
    ELSE <<SubSeq(response, 1, Least({i \in 1..Len(response) : At(response, i, STEPS_MARKER)}) - 1),
           From(response, Least({i \in 1..Len(response) : At(response, i, STEPS_MARKER)}) + Len(STEPS_MARKER))>>

\* response.split('STEPS:')
MarkerParts(response) == str_split(response, STEPS_MARKER)

\* The arguments _convert_with_llm gives to convert when the response has
\* two parts.
LLMArgs(parts, url) ==
    ConvertArgs(LinesOf(strip_text(str_replace(parts[1], INGREDIENTS_MARKER, <<>>))),
                LinesOf(strip_text(parts[2])), url)

\* The arguments of the call of convert, None when convert is not called.
FallbackArgs(parts, url) ==
    IF Len(parts) = 2 THEN LLMArgs(parts, url) ELSE None

\* What _convert_with_llm returns for the arguments it gives to convert.
FallbackResult(a, uuid, created, converted) ==
    IF a = None THEN None ELSE convert(a, uuid, created, converted)

_convert_with_llm(response, url, uuid, created, converted) ==
    FallbackResult(FallbackArgs(MarkerParts(response), url),
                   uuid, created, converted)

\* The most parts of a response of the model.
MaxParts == 4

\* The parts of the responses: the two markers, a list of one ingredient
\* and a list of one step.
ResponseParts ==
    { STEPS_MARKER, INGREDIENTS_MARKER,
      <<"\n", "-", " ", "2", " ", "k", "g", " ", "s", "o", "l", "q", "\n">>,
      <<"\n", "1", ".", " ", "v", "a", "r", "i", "t", "q", "\n">> }

LLMResponses == TokenLines(ResponseParts, MaxParts)

\* What stands for the response when the call of the API raises.
APIError == <<"APIError">>

\* _convert_with_llm, called on its own; `text` keeps the response, `args`
\* the arguments convert was called with and `recipe` what was returned.
ConvertWithLLM ==
    /\ pc = "idle"
    /\ \/ \E response \in LLMResponses, uuid \in UUIDs, created \in Timestamps :
            /\ text' = response
            /\ args' = FallbackArgs(MarkerParts(response), "http://source")
            /\ recipe' = _convert_with_llm(response, "http://source", uuid, created, created)
       \/ /\ text' = APIError
          /\ args' = None
          /\ recipe' = None
    /\ pc' = "_convert_with_llm"
    /\ UNCHANGED <<parsed, result>>

\* ------------------------------------------------------------------------
\* The agent: process_recipe
\* ------------------------------------------------------------------------

\* The words that open the ingredients section and the steps section. The
\* pages of the model hold no Latin letter but w and x, so the English words
\* of the two lists cannot occur and are left out.
IngredientSectionWords ==
    { <<"s", "o", "s", "t", "a", "v">>, <<"n", "u", "zh", "n", "o", ":">>,
      <<"p", "o", "n", "a", "d", "o", "b", "i", "t", "s", "ya">> }

StepSectionWords ==
    { <<"p", "r", "i", "g", "o", "t", "o", "v", "l", "e", "n", "i", "e">>,
      <<"i", "n", "s", "t", "r", "u", "k", "c", "i", "ya">>,
      <<"s", "p", "o", "s", "o", "b">>, <<"sh", "a", "g">> }

\* The characters of the classes \w and \s.
WordChar == CyrLower \cup CyrUpper \cup Digit \cup {"yo", "Yo", "w", "x", "W", "X", "_"}

\* re.match(r'^\d+[\s\w]+', line) or re.match(r'^[-•*]', line)
IsIngredientLine(line) ==
    \/ /\ Len(line) >= 2
       /\ line[1] \in Digit
       /\ line[2] \in WordChar \cup Whitespace
    \/ line[1] \in BulletChar

\* re.match(r'^\d+[\.)]', line) or re.match(r'^[-•*]', line) or len(line) > 30
IsStepLine(line) ==
    \/ /\ line[1] \in Digit
       /\ RunEnd(line, 1, Digit) <= Len(line)
       /\ line[RunEnd(line, 1, Digit)] \in {".", ")"}
    \/ line[1] \in BulletChar
    \/ Len(line) > 30

\* One turn of the loop of _extract_structured_text on a line that is not
\* blank: the section and the two lists after it.
ExtractLine(line, current_section, found) ==
    IF \E word \in IngredientSectionWords : In(word, lower(line))
    THEN [current_section |-> "ingredients", found |-> found]
    ELSE IF \E word \in StepSectionWords : In(word, lower(line))
    THEN [current_section |-> "steps", found |-> found]
    ELSE IF current_section = "ingredients" /\ IsIngredientLine(line)
    THEN [current_section |-> current_section,
          found |-> [found EXCEPT !.ingredients = Append(@, line)]]
    ELSE IF current_section = "steps" /\ IsStepLine(line)
    THEN [current_section |-> current_section,
          found |-> [found EXCEPT !.steps = Append(@, line)]]
    ELSE [current_section |-> current_section, found |-> found]

\* The loop of _extract_structured_text over the lines from the i-th on.
RECURSIVE ExtractFrom(_, _, _)
ExtractFrom(lines, i, state) ==
    IF i > Len(lines) THEN state.found
    ELSE IF strip(lines[i]) = <<>> THEN ExtractFrom(lines, i + 1, state)
    ELSE ExtractFrom(lines, i + 1,
                     ExtractLine(strip(lines[i]), state.current_section, state.found))

\* The two joined lists, each None when empty.
_extract_structured_text(page) ==
    ExtractFrom(page, 1, [current_section |-> None,
                          found |-> [ingredients |-> <<>>, steps |-> <<>>]])

\* The arguments of the call of convert that convert_to_rcip makes, itself
\* or through _convert_with_llm; None when convert is not called.
ConversionArgs(sections, url, response) ==
    IF TruthyText(sections.ingredients) /\ TruthyText(sections.steps)
    THEN ConvertArgs(sections.ingredients, sections.steps, url)
    ELSE IF response = APIError THEN None
    ELSE FallbackArgs(MarkerParts(response), url)

\* convert never raises, so the except branch of convert_to_rcip is not
\* taken.
convert_to_rcip(recipe_data, response, uuid, created, converted) ==
    FallbackResult(ConversionArgs(_extract_structured_text(recipe_data.text),
                                  recipe_data.url, response),
                   uuid, created, converted)

\* validate_rcip: the required fields are there and every ingredient has
\* the allergens field.
validate_rcip(document) ==
    /\ \A i \in 1..Len(RequiredFields) : RequiredFields[i] \in DOMAIN document
    /\ \A i \in 1..Len(document.ingredients) : "allergens" \in DOMAIN document.ingredients[i]

\* len(text) of the text whose lines are given.
RECURSIVE TextLen(_)
TextLen(lines) ==
    IF lines = <<>> THEN 0
    ELSE IF Len(lines) = 1 THEN Len(lines[1])
    ELSE Len(lines[1]) + 1 + TextLen(Tail(lines))

\* The most URLs a search returns.
MaxUrls == 3

\* n characters that belong to no word of the lexicons.
Filler(n) == [i \in 1..n |-> "x"]

\* The lines of the pages; scrape_recipe keeps the lines of more than 20
\* characters.
SectionIngredientsLine == <<"S", "o", "s", "t", "a", "v", " ">> \o Filler(15)

QuantityLine == <<"2", " ", "k", "g", " ", "s", "o", "l", "q", " ">> \o Filler(12)

SectionStepsLine == <<"SH", "a", "g", " ">> \o Filler(18)

NumberedLine == <<"1", ".", " ", "v", "a", "r", "i", "t", "q", " ">> \o Filler(12)

\* The texts scrape_recipe extracts: without sections or with them, of at
\* most 500 characters or of more.
PageTexts ==
    { <<Filler(21)>>,
      <<Filler(250), Filler(251)>>,
      <<SectionIngredientsLine, QuantityLine, SectionStepsLine, NumberedLine>>,
      <<SectionIngredientsLine, QuantityLine, SectionStepsLine, NumberedLine, Filler(450)>> }

\* What scrape_recipe returns for a URL: None after an exception, or the
\* URL and the text.
ScrapeResults(url) == {None} \cup {[url |-> url, text |-> t] : t \in PageTexts}

\* The responses of the model during process_recipe: none, without marker,
\* of the answer format, and with the marker twice.
AgentResponses ==
    { APIError,
      <<"\n", "-", " ", "2", " ", "k", "g", " ", "s", "o", "l", "q", "\n">>,
      INGREDIENTS_MARKER \o <<"\n", "-", " ", "2", " ", "k", "g", " ", "s", "o", "l", "q", "\n">>
        \o STEPS_MARKER \o <<"\n", "1", ".", " ", "v", "a", "r", "i", "t", "q", "\n">>,
      STEPS_MARKER \o <<"\n", "1", ".", " ", "v", "a", "r", "i", "t", "q", "\n">> \o STEPS_MARKER }

\* Step 1 of process_recipe: the search. `text` keeps the locals of
\* process_recipe, `parsed` the files of the output directory, `recipe` the
\* document of the conversion and `result` what process_recipe returned.
SearchRecipe ==
    /\ pc = "idle"
    /\ \E auto_save \in BOOLEAN, urls \in Texts({"http://source"}, MaxUrls) :
        /\ text' = [auto_save |-> auto_save, urls |-> urls, tried |-> 0,
                    recipe_data |-> None]
        /\ pc' = IF urls = <<>> THEN "process_recipe" ELSE "scrape_recipe"
    /\ UNCHANGED <<args, parsed, recipe, result>>

\* Where process_recipe goes after scraping URL number `tried`.
AfterScrape(recipe_data, tried, urls) ==
    IF recipe_data # None /\ TextLen(recipe_data.text) > 500 THEN "convert_to_rcip"
    ELSE IF tried < Len(urls) /\ tried < 3 THEN "scrape_recipe"
    ELSE IF recipe_data = None THEN "process_recipe"
    ELSE "convert_to_rcip"

\* Step 2: one turn of the loop over urls[:3].
ScrapeRecipe ==
    /\ pc = "scrape_recipe"
    /\ \E recipe_data \in ScrapeResults(text.urls[text.tried + 1]) :
        /\ text' = [text EXCEPT !.tried = @ + 1, !.recipe_data = recipe_data]
        /\ pc' = AfterScrape(recipe_data, text.tried + 1, text.urls)
    /\ UNCHANGED <<args, parsed, recipe, result>>

\* Where process_recipe goes, were the document of the conversion not
\* tested.
AfterConversion_untested(rcip_recipe) == "save_recipe"

\* Where process_recipe goes after the conversion.
AfterConversion(rcip_recipe) ==
    IF rcip_recipe = None THEN "process_recipe" ELSE "save_recipe"

\* Step 3: convert_to_rcip; `args` keeps the arguments convert was called
\* with.
ConvertToRcip ==
    /\ pc = "convert_to_rcip"
    /\ \E response \in AgentResponses, uuid \in UUIDs, created \in Timestamps :
        /\ args' = ConversionArgs(_extract_structured_text(text.recipe_data.text),
                                  text.recipe_data.url, response)
        /\ recipe' = convert_to_rcip(text.recipe_data, response, uuid, created, created)
        /\ pc' = AfterConversion(recipe')
    /\ UNCHANGED <<text, parsed, result>>

\* Steps 4 and 5: validate_rcip, whose verdict changes nothing, save_recipe
\* when auto_save is on, which writes a new file, and the return.
SaveRecipe ==
    /\ pc = "save_recipe"
    /\ parsed' = IF text.auto_save THEN Append(parsed, recipe) ELSE parsed
    /\ result' = recipe
    /\ pc' = "process_recipe"
    /\ UNCHANGED <<text, args, recipe>>

NextAgent ==
    \/ ConvertWithLLM
    \/ SearchRecipe
    \/ ScrapeRecipe
    \/ ConvertToRcip
    \/ SaveRecipe
    \/ Return

SpecAgent == Init /\ [][NextAgent]_vars

\* The places of the response where the marker occurs.
Occurrences(s, marker) == {i \in 1..Len(s) : At(s, i, marker)}

\* The response is cut at place p into the two texts given to convert.
CutAt(response, p, a) ==
    /\ a # None
    /\ a.ingredients_text =
         LinesOf(strip_text(str_replace(SubSeq(response, 1, p - 1), INGREDIENTS_MARKER, <<>>)))
    /\ a.steps_text = LinesOf(strip_text(From(response, p + Len(STEPS_MARKER))))

\* C17: in the LLM fallback, a response in which the marker STEPS: occurs
\* once is split at it into the ingredients text and the steps text, which
\* are converted; a response in which the marker is absent or occurs more
\* than once gives no document, and convert is not called.
C17_SplitAtSingleMarker ==
    (pc = "_convert_with_llm" /\ text # APIError) =>
        IF Cardinality(Occurrences(text, STEPS_MARKER)) = 1
        THEN /\ \A p \in Occurrences(text, STEPS_MARKER) : CutAt(text, p, args)
             /\ recipe # None
             /\ recipe.ingredients = IngredientsToRcip(parse_ingredients(args.ingredients_text))
             /\ recipe.steps = StepsToRcip(parse_steps(args.steps_text))
        ELSE args = None /\ recipe = None

\* The case of C17: the response of the answer format, with one ingredient
\* and one step.
C17_Witness ==
    /\ pc = "_convert_with_llm"
    /\ Len(text) > 1
    /\ startswith(text, INGREDIENTS_MARKER)
    /\ Cardinality(Occurrences(text, STEPS_MARKER)) = 1
    /\ recipe # None
    /\ Len(recipe.ingredients) = 1
    /\ Len(recipe.steps) = 1

\* process_recipe is running or has returned.
InProcessRecipe ==
    pc \in {"scrape_recipe", "convert_to_rcip", "save_recipe", "process_recipe"}

\* The document has every required field and every ingredient its
\* allergens.
Complete(document) == document # None /\ validate_rcip(document)

TokenKeys ==
    {i \in DOMAIN UNIT_MAPPING :
        \A k \in 1..Len(UNIT_MAPPING[i].key) : UNIT_MAPPING[i].key[k] \in UnitChar}

\* The record has the unit of entry i and twice its multiplier as value.
OwnEntry(ingredient, i) ==
    /\ ingredient.unit = UNIT_MAPPING[i].unit
    /\ FracEq(ingredient.value, FracMul(FracOfInt(2), UNIT_MAPPING[i].multiplier))

\* C20: every key of the unit lexicon normalizes to its own entry: the
\* line "2 <key> соль" gets the unit and the multiplier declared for the
\* key, whatever shorter keys declared earlier occur in it.
C20_KeyOwnEntry ==
    pc = "parse_ingredients" =>
        \A i \in TokenKeys :
            text = << <<"2", " ">> \o UNIT_MAPPING[i].key \o <<" ">> \o SOL >>
            => (Len(parsed) = 1 /\ OwnEntry(parsed[1], i))

\* ------------------------------------------------------------------------
\* Calls of convert in parallel threads
\* ------------------------------------------------------------------------

\* The number of threads.
NumThreads == 2

Threads == 1..NumThreads

\* The arguments of the calls: a quantity of flour with a step and a source,
\* or salt alone.
ThreadArgs ==
    { ConvertArgs(<< <<"2", " ", "k", "g", " ", "m", "u", "k", "a">> >>,
                  << <<"1", ".", " ", "v", "a", "r", "i", "t", "q">> >>,
                  "http://source"),
      ConvertArgs(<< SOL >>, None, "") }

\* The frame that holds the locals of the call running in the thread, were
\* the calls to keep them in one place.
Frame_shared(thread) == 1

\* The frame that holds the locals parsed_ingredients and parsed_steps of
\* the call running in the thread: one frame for each call.
Frame(thread) == thread

\* The threads call convert on one converter. `text` keeps the position of
\* each thread in convert, `args` the arguments of each call, `parsed` the
\* frames, `recipe` the dict each call builds and `result` what each call
\* returned.
StartThreads ==
    /\ pc = "idle"
    /\ args' \in [Threads -> ThreadArgs]
    /\ text' = [t \in Threads |-> "called"]
    /\ parsed' = [t \in Threads |-> [parsed_ingredients |-> <<>>, parsed_steps |-> <<>>]]
    /\ recipe' = [t \in Threads |-> None]
    /\ result' = [t \in Threads |-> None]
    /\ pc' = "threads"

\* Lines 262-271: the base structure.
BuildRecipe(t) ==
    /\ pc = "threads" /\ text[t] = "called"
    /\ \E uuid \in UUIDs :
        recipe' = [recipe EXCEPT ![t] =
            [rcip_version |-> "0.1",
             id |-> "rcip-" \o uuid,
             meta |-> _create_meta(args[t].name, args[t].description, args[t].servings,
                                   args[t].prep_time, args[t].cook_time, args[t].difficulty,
                                   args[t].cuisine, args[t].author, "t1"),
             ingredients |-> <<>>,
             steps |-> <<>>]]
    /\ text' = [text EXCEPT ![t] = "recipe"]
    /\ UNCHANGED <<pc, args, parsed, result>>

\* Lines 274-275: parse_ingredients into the local, when the text is given.
ParseIngredientsText(t) ==
    /\ pc = "threads" /\ text[t] = "recipe"
    /\ parsed' = IF TruthyText(args[t].ingredients_text)
                 THEN [parsed EXCEPT ![Frame(t)].parsed_ingredients =
                          parse_ingredients(args[t].ingredients_text)]
                 ELSE parsed
    /\ text' = [text EXCEPT ![t] = "parsed_ingredients"]
    /\ UNCHANGED <<pc, args, recipe, result>>

\* Lines 276-279: the ingredients of the document from the local.
StoreIngredients(t) ==
    /\ pc = "threads" /\ text[t] = "parsed_ingredients"
    /\ recipe' = IF TruthyText(args[t].ingredients_text)
                 THEN [recipe EXCEPT ![t].ingredients =
                          IngredientsToRcip(parsed[Frame(t)].parsed_ingredients)]
                 ELSE recipe
    /\ text' = [text EXCEPT ![t] = "ingredients"]
    /\ UNCHANGED <<pc, args, parsed, result>>

\* Lines 282-283: parse_steps into the local, when the text is given.
ParseStepsText(t) ==
    /\ pc = "threads" /\ text[t] = "ingredients"
    /\ parsed' = IF TruthyText(args[t].steps_text)
                 THEN [parsed EXCEPT ![Frame(t)].parsed_steps =
                          parse_steps(args[t].steps_text)]
                 ELSE parsed
    /\ text' = [text EXCEPT ![t] = "parsed_steps"]
    /\ UNCHANGED <<pc, args, recipe, result>>

\* Lines 284-287: the steps of the document from the local.
StoreSteps(t) ==
    /\ pc = "threads" /\ text[t] = "parsed_steps"
    /\ recipe' = IF TruthyText(args[t].steps_text)
                 THEN [recipe EXCEPT ![t].steps =
                          StepsToRcip(parsed[Frame(t)].parsed_steps)]
                 ELSE recipe
    /\ text' = [text EXCEPT ![t] = "steps"]
    /\ UNCHANGED <<pc, args, parsed, result>>

\* Lines 290-292: the diet labels.
StoreDietLabels(t) ==
    /\ pc = "threads" /\ text[t] = "steps"
    /\ recipe' = [recipe EXCEPT ![t].meta.diet_labels =
                      _detect_diet_labels(recipe[t].ingredients)]
    /\ text' = [text EXCEPT ![t] = "diet_labels"]
    /\ UNCHANGED <<pc, args, parsed, result>>

\* Lines 295-301: the extensions and the return.
ReturnRecipe(t) ==
    /\ pc = "threads" /\ text[t] = "diet_labels"
    /\ result' = [result EXCEPT ![t] =
                      recipe[t] @@ (IF args[t].source_url # ""
                                    THEN [extensions |-> [source_url |-> args[t].source_url,
                                                          converted_date |-> "t2"]]
                                    ELSE <<>>)]
    /\ text' = [text EXCEPT ![t] = "returned"]
    /\ UNCHANGED <<pc, args, parsed, recipe>>

NextThreads ==
    \/ StartThreads
    \/ \E t \in Threads : BuildRecipe(t)
    \/ \E t \in Threads : ParseIngredientsText(t)
    \/ \E t \in Threads : StoreIngredients(t)
    \/ \E t \in Threads : ParseStepsText(t)
    \/ \E t \in Threads : StoreSteps(t)
    \/ \E t \in Threads : StoreDietLabels(t)
    \/ \E t \in Threads : ReturnRecipe(t)
    \/ Return

SpecThreads == Init /\ [][NextThreads]_vars

\* The document the call returns when it runs alone, without its id and
\* its dates.
Alone(a) == Undated(convert(a, "u1", "t1", "t2"))

\* C19: calls of convert in parallel threads do not interfere: in every
\* interleaving, each call returns the document it returns when it runs
\* alone, up to the id and the dates.
C19_NoInterference ==
    pc = "threads" =>
        \A t \in Threads :
            text[t] = "returned" =>
                /\ DOMAIN result[t] = DOMAIN convert(args[t], "u1", "t1", "t2")
                /\ Undated(result[t]) = Alone(args[t])

\* The case of C19: the arguments of the two calls differ, and the first
\* call has returned while the second is between parsing its ingredients
\* and storing them.
C19_Witness ==
    /\ pc = "threads"
    /\ args[1] # args[2]
    /\ text[1] = "returned"
    /\ text[2] = "parsed_ingredients"
    /\ Len(result[1].ingredients) = 1

\* ------------------------------------------------------------------------
\* The agent: save_recipe
\* ------------------------------------------------------------------------

\* The output directory is the sequence of its files, each a path and a
\* content, in the order they were created. A file name is a sequence of
\* characters in which the id of a recipe, which holds no '.', is one
\* element.
EXT == <<".", "r", "c", "i", "p">>

\* (output_dir / filename).exists()
Exists(files, filename) == \E k \in 1..Len(files) : files[k].path = filename

\* open(filepath, 'w') and json.dump: the file is created, or truncated when
\* it is there, and holds the recipe.
WriteFile(files, filepath, content) ==
    SelectSeq(files, LAMBDA f : f.path # filepath)
    \o << [path |-> filepath, content |-> content] >>

DigitSeq == <<"0", "1", "2", "3", "4", "5", "6", "7", "8", "9">>

\* str(n) of a natural number.
RECURSIVE str(_)
str(n) ==
    IF n < 10 THEN <<DigitSeq[n + 1]>>
    ELSE str(n \div 10) \o <<DigitSeq[(n % 10) + 1]>>

\* f"{base}_v{counter}.rcip"
Versioned(base, counter) == base \o <<"_", "v">> \o str(counter) \o EXT

\* The while loops of lines 379-382 and 412-415: the first of the versioned
\* names, from `counter` on, that is not in the directory.
RECURSIVE FirstFree(_, _, _)
FirstFree(files, base, counter) ==
    IF Exists(files, Versioned(base, counter))
    THEN FirstFree(files, base, counter + 1)
    ELSE Versioned(base, counter)

\* The characters of which str.isalnum() holds.
Alnum == CyrLower \cup CyrUpper \cup Digit \cup {"yo", "Yo", "w", "x", "W", "X"}

\* Lines 369-371: the safe name of the recipe title.
SafeName(recipe_name) ==
    lower([k \in 1..Len(recipe_name) |->
              IF recipe_name[k] \in Alnum \cup {"-", "_"} THEN recipe_name[k] ELSE "_"])

generate_unique_filename(files, recipe_name, recipe_id) ==
    IF Exists(files, SafeName(recipe_name) \o <<"_", recipe_id>> \o EXT)
    THEN FirstFree(files,
                   str_replace(SafeName(recipe_name) \o <<"_", recipe_id>> \o EXT, EXT, <<>>),
                   1)
    ELSE SafeName(recipe_name) \o <<"_", recipe_id>> \o EXT

\* Path.stem: the name without its last suffix.
Stem(filename) ==
    IF \E k \in 2..Len(filename) : filename[k] = "."
    THEN SubSeq(filename, 1,
                (CHOOSE k \in 2..Len(filename) :
                    /\ filename[k] = "."
                    /\ \A j \in (k + 1)..Len(filename) : filename[j] # ".") - 1)
    ELSE filename

\* Lines 399-403: the name save_recipe starts from.
FileName(files, saved, filename) ==
    IF filename = None
    THEN generate_unique_filename(files, saved.meta.name, saved.id)
    ELSE filename

\* The path, were the file name taken as it is.
FilePath_unchecked(files, filename) == filename

\* Lines 403-415: the path save_recipe writes to.
FilePath(files, filename) ==
    IF Exists(files, filename) THEN FirstFree(files, Stem(filename), 1) ELSE filename

\* The path save_recipe returns.
save_recipe(files, saved, filename) ==
    FilePath(files, FileName(files, saved, filename))

\* The most calls of save_recipe on one directory.
MaxSaves == 3

\* The recipes saved: two titles that have the same safe name, and two ids.
SavedRecipes ==
    { [id |-> i, meta |-> [name |-> n]] :
        i \in {"rcip-u1", "rcip-u2"},
        n \in { <<"S", "o", "l", "q", " ", "2">>, <<"s", "o", "l", "q", "!", "2">> } }

\* The filename argument: absent, with the suffix, without it.
FileNames == { None, <<"a">> \o EXT, <<"a">> }

\* save_recipe, called again and again on one directory. `parsed` keeps the
\* directory, `recipe` the recipe saved last, `text` the filename argument
\* and `result` the path returned.
SaveRecipeCall ==
    /\ pc \in {"idle", "save_recipe_returned"}
    /\ Len(parsed) < MaxSaves
    /\ \E saved \in SavedRecipes, filename \in FileNames :
        /\ recipe' = saved
        /\ text' = filename
        /\ result' = save_recipe(parsed, saved, filename)
        /\ parsed' = WriteFile(parsed, save_recipe(parsed, saved, filename), saved)
    /\ pc' = "save_recipe_returned"
    /\ UNCHANGED args

NextSave ==
    \/ SaveRecipeCall
    \/ Return

SpecSave == Init /\ [][NextSave]_vars

\* The names base_v1, base_v2, ... before the path are all taken, and the
\* path is one of them.
FirstFreeVersion(files, base, path) ==
    \E n \in 1..(Len(files) + 1) :
        /\ path = Versioned(base, n)
        /\ \A k \in 1..(n - 1) : Exists(files, Versioned(base, k))

\* The name the call asks for: the filename argument, or the safe name and
\* the id of the recipe.
Requested(saved, filename) ==
    IF filename = None
    THEN SafeName(saved.meta.name) \o <<"_", saved.id>> \o EXT
    ELSE filename

\* The path is the requested name when that is free, the first free
\* version of its base otherwise.
Chosen(files, requested, path) ==
    IF Exists(files, requested)
    THEN FirstFreeVersion(files, Stem(requested), path)
    ELSE path = requested

\* C22: save_recipe never overwrites a file: every call writes to a path
\* that was not in the directory when the call started, the files of
\* before are there with their content, the directory has one file more,
\* and the name is the requested one or the first of base_v1, base_v2, ...
\* that is free.
C22_NeverOverwrites ==
    [][pc' = "save_recipe_returned" =>
        /\ ~Exists(parsed, result')
        /\ parsed' = Append(parsed, [path |-> result', content |-> recipe'])
        /\ Chosen(parsed, Requested(recipe', text'), result')]_vars

\* The case of C22: the same filename was given three times, and the
\* directory holds the file and its first two versions.
C22_Witness ==
    /\ pc = "save_recipe_returned"
    /\ Len(parsed) = 3
    /\ parsed[1].path = <<"a">> \o EXT
    /\ parsed[2].path = <<"a", "_", "v", "1">> \o EXT
    /\ parsed[3].path = <<"a", "_", "v", "2">> \o EXT
    /\ text = <<"a">> \o EXT

\* ------------------------------------------------------------------------
\* The agent: batch_process
\* ------------------------------------------------------------------------

\* The most names of a batch.
MaxNames == 3

\* The lists of names given to batch_process; a name may occur twice.
RecipeNameLists == Texts({"borsch", "plov"}, MaxNames)

\* What a call of process_recipe does: it returns a document, returns
\* None, or raises an Exception.
ProcessOutcomes ==
    { [raised |-> FALSE, value |-> FullDocument(<<>>)],
      [raised |-> FALSE, value |-> None],
      [raised |-> TRUE] }

\* Lines 492-500: the results after the name, given what process_recipe
\* did.
Record(results, name, outcome) ==
    IF ~outcome.raised /\ outcome.value # None
    THEN [results EXCEPT !.success = Append(@, name)]
    ELSE [results EXCEPT !.failed = Append(@, name)]

\* The index handled next, were an exception to end the loop.
AfterName_unless_raised(i, outcome, recipe_names) ==
    IF outcome.raised THEN Len(recipe_names) + 1 ELSE i + 1

\* The index handled next: the try statement is inside the loop, so the
\* loop goes on whatever process_recipe did.
AfterName(i, outcome, recipe_names) == i + 1

\* batch_process is called. `text` keeps the list of names and the index
\* of the name to handle, `args` what process_recipe did for the names
\* handled, `result` the results.
BatchProcess ==
    /\ pc = "idle"
    /\ \E recipe_names \in RecipeNameLists :
        text' = [recipe_names |-> recipe_names, i |-> 1]
    /\ result' = [success |-> <<>>, failed |-> <<>>]
    /\ pc' = "batch_loop"
    /\ UNCHANGED <<args, parsed, recipe>>

\* One turn of the loop of lines 489-500.
BatchName ==
    /\ pc = "batch_loop"
    /\ text.i <= Len(text.recipe_names)
    /\ \E outcome \in ProcessOutcomes :
        /\ args' = Append(args, outcome)
        /\ result' = Record(result, text.recipe_names[text.i], outcome)
        /\ text' = [text EXCEPT !.i = AfterName(text.i, outcome, text.recipe_names)]
    /\ UNCHANGED <<pc, parsed, recipe>>

\* The loop is over and batch_process returns the results.
BatchReturn ==
    /\ pc = "batch_loop"
    /\ text.i > Len(text.recipe_names)
    /\ pc' = "batch_process"
    /\ UNCHANGED <<text, args, parsed, recipe, result>>

NextBatch ==
    \/ BatchProcess
    \/ BatchName
    \/ BatchReturn
    \/ Return

SpecBatch == Init /\ [][NextBatch]_vars

\* process_recipe returned a document.
Succeeded(outcome) == ~outcome.raised /\ outcome.value # None

\* The names of the places of `places`, in the order of the list.
RECURSIVE NamesAt(_, _, _)
NamesAt(recipe_names, places, from) ==
    IF from > Len(recipe_names) THEN <<>>
    ELSE (IF from \in places THEN <<recipe_names[from]>> ELSE <<>>)
         \o NamesAt(recipe_names, places, from + 1)

\* C23: batch_process handles every name once and in the order of the
\* input: when it has returned, process_recipe was called once for each
\* place of the list, the success list holds the names of the places where
\* it returned a document and the failed list the names of the other
\* places, each in the order of the input, so the two lists together have
\* the length of the input; a failure or an exception for one name does
\* not keep the following names from being handled.
C23_EveryNameOnce ==
    pc = "batch_process" =>
        /\ Len(args) = Len(text.recipe_names)
        /\ result.success =
             NamesAt(text.recipe_names, {k \in 1..Len(args) : Succeeded(args[k])}, 1)
        /\ result.failed =
             NamesAt(text.recipe_names, {k \in 1..Len(args) : ~Succeeded(args[k])}, 1)
        /\ Len(result.success) + Len(result.failed) = Len(text.recipe_names)

\* The case of C23: the first name raised, the second, the same name, gave
\* a document, and the third gave nothing.
C23_Witness ==
    /\ pc = "batch_process"
    /\ text.recipe_names = <<"plov", "plov", "borsch">>
    /\ args[1].raised
    /\ Succeeded(args[2])
    /\ ~args[3].raised /\ ~Succeeded(args[3])
    /\ result = [success |-> <<"plov">>, failed |-> <<"plov", "borsch">>]

\* ------------------------------------------------------------------------
\* The loop of process_recipe over the URLs
\* ------------------------------------------------------------------------

\* C21: when one of the first three URLs was scraped with success,
\* process_recipe goes on to the conversion with a scraped text: a turn of
\* the loop that starts with the data of an earlier URL never ends without
\* data, nor with the return of nothing.
C21_KeepsScrapedText ==
    [][(pc = "scrape_recipe" /\ pc' # "idle" /\ text.recipe_data # None)
        => (text'.recipe_data # None /\ pc' # "process_recipe")]_vars
====
